---- MODULE Spec2Model ----
(***************************************************************************)
(* The request pipelines of the Store class (src/jsonreststores.js): one   *)
(* store, one request at a time.  Every `await` of a pipeline is one step  *)
(* of the model; pc is the source line of the `await` about to run, 0 when *)
(* no pipeline is running.  Hooks and the schema / persistence             *)
(* collaborators are overridable, so each call either resolves (with any   *)
(* value its contract allows) or rejects.  Further down: the create and    *)
(* update-or-create pipelines of the older class (SpecBefore), its         *)
(* query-condition resolver (SpecResolve) and its error policy             *)
(* (SpecSendError); the store registry and constructor (SpecRegistry), the *)
(* api* functions (SpecApi), two concurrent creates (SpecConcurrent), the  *)
(* positioning of MySqlStoreMixin (SpecPosition) and the pipelines under   *)
(* fairness (SpecLive).                                                    *)
(***************************************************************************)
EXTENDS Integers, Sequences, FiniteSets, TLC

\* Number of distinct records the persistence collaborator may hand back.
NumDocs == 1
\* Number of distinct denial messages checkPermissions may return.
NumMessages == 1

Docs == 1 .. NumDocs
Messages == 0 .. NumMessages      \* 0: no message (undefined)

Verbs == {"post", "put", "get", "getQuery", "delete"}

\* JavaScript values held in request.doc and returned by collaborators.
Null == [t |-> "null", id |-> 0, ids |-> {}]
Doc(i) == [t |-> "doc", id |-> i, ids |-> {}]
List(S) == [t |-> "list", id |-> 0, ids |-> S]
\* Result of a call whose stage ended in a throw.
Threw == [t |-> "throw", id |-> 0, ids |-> {}]
Truthy(v) == v.t # "null"

\* putNew / putExisting are undefined until the probe of _makePut completes.
Tri(b) == IF b THEN "true" ELSE "false"

Range(s) == {s[i] : i \in DOMAIN s}

\* The store of the README: publicURL '/workspaces/:workspaceId/users/:id'.
paramIds == <<"workspaceId", "id">>
\* self._lastParamId()
_lastParamId == paramIds[Len(paramIds)]
idProperty == _lastParamId
\* Keys of self.schema.structure after construction (paramIds are added).
SchemaFields == Range(paramIds) \cup {"name"}
\* Fields for which the schema collaborator may fill in a default.
DefaultFields == {"name"}

VARIABLES
  store,            \* the handle flags and positioning of the store
  method,           \* the verb whose pipeline is running
  request,          \* the request object of the run
  pc,               \* source line of the await about to run; 0: not running
  trace,            \* every hook / stage / collaborator call made so far
  repositionCalls,  \* arguments of every implementReposition call
  outcome           \* how the run ended: returned value or thrown error

vars == <<store, method, request, pc, trace, repositionCalls, outcome>>

NoOutcome ==
  [state |-> "none", kind |-> "", message |-> 0, errors |-> {}, doc |-> Null]

NoRequest ==
  [remote |-> FALSE, params |-> {}, body |-> {}, bodyBeforeValidation |-> {},
   options |-> [putBefore |-> 0, putDefaultPosition |-> "", conditionsHash |-> {},
               overwrite |-> "undefined"],
   doc |-> Null, putNew |-> "undefined", putExisting |-> "undefined"]

Init ==
  /\ store \in [handlePost : BOOLEAN, handlePut : BOOLEAN, handleGet : BOOLEAN,
                handleGetQuery : BOOLEAN, handleDelete : BOOLEAN,
                positioning : BOOLEAN]
  /\ method = ""
  /\ request = NoRequest
  /\ pc = 0
  /\ trace = <<>>
  /\ repositionCalls = <<>>
  /\ outcome = NoOutcome

\* First line of each pipeline function.
EntryLine(m) ==
  CASE m = "post" -> 355
    [] m = "put" -> 401
    [] m = "get" -> 462
    [] m = "getQuery" -> 492
    [] m = "delete" -> 528

\* A caller (transport binding: remote = TRUE; api* function: remote = FALSE)
\* makes up a request and calls the pipeline of verb m.
Call ==
  /\ pc = 0
  /\ outcome.state = "none"
  /\ \E m \in Verbs, remote \in BOOLEAN, params \in SUBSET Range(paramIds),
        body \in {{}, {idProperty, "name"}}, putBefore \in {0} \cup Docs,
        putDefaultPosition \in {"", "start", "end"},
        overwrite \in {"undefined", "true", "false"},
        conditionsHash \in {{}, {"name"}} :
       /\ m \in {"get", "getQuery", "delete"} =>
            body = {} /\ putBefore = 0 /\ putDefaultPosition = ""
       \* options.conditionsHash: the filter values of a query
       /\ conditionsHash # {} => m = "getQuery"
       \* options.overwrite comes with a put that carries no placement
       /\ overwrite # "undefined" =>
            m = "put" /\ putBefore = 0 /\ putDefaultPosition = ""
       /\ method' = m
       /\ request' = [NoRequest EXCEPT
                        !.remote = remote, !.params = params, !.body = body,
                        !.options.putBefore = putBefore,
                        !.options.putDefaultPosition = putDefaultPosition,
                        !.options.conditionsHash = conditionsHash,
                        !.options.overwrite = overwrite]
       /\ pc' = EntryLine(m)
  /\ UNCHANGED <<store, trace, repositionCalls, outcome>>

----------------------------------------------------------------------------
\* Building blocks of a step.

\* Mutant of Resume: the stage is run again instead of the next one.
ResumeSameLine(next) == pc' = pc /\ UNCHANGED outcome

\* The awaited call resolved: go on with the line `next`.
Resume(next) == pc' = next /\ UNCHANGED outcome

\* An exception leaves the async function: the run ends with that failure.
Throw(kind, message, errors) ==
  /\ pc' = 0
  /\ outcome' = [state |-> "failed", kind |-> kind, message |-> message,
                 errors |-> errors, doc |-> Null]

\* `return request.doc`
Return(doc) ==
  /\ pc' = 0
  /\ outcome' = [state |-> "returned", kind |-> "", message |-> 0,
                 errors |-> {}, doc |-> doc]

\* One entry of the call history: what was called, with which method
\* argument, on which request, and what it gave back.
Entry(name, arg, result) ==
  [call |-> name, method |-> arg, req |-> request, result |-> result]

Called(name, arg, result) == trace' = Append(trace, Entry(name, arg, result))

\* Mutant of Gate: the gate forgets that local calls ignore handle flags.
GateIgnoringRemote(flag, next) ==
  IF ~flag
  THEN Throw("NotImplementedError", 0, {})
  ELSE Resume(next)

\* `if (!self.handleXXX && request.remote) throw new Store.NotImplementedError()`
Gate(flag, next) ==
  IF ~flag /\ request.remote
  THEN Throw("NotImplementedError", 0, {})
  ELSE Resume(next)

\* Entry of a pipeline: `request.doc = null`, then the handle-flag gate.
EntryStep(line, flag, next) ==
  /\ pc = line
  /\ request' = [request EXCEPT !.doc = Null]
  /\ Gate(flag, next)
  /\ UNCHANGED <<store, method, trace, repositionCalls>>

\* Mutant of Hook: a rejected hook is swallowed and the pipeline goes on.
HookSwallowingFailure(line, name, arg, next) ==
  /\ pc = line
  /\ \/ Called(name, arg, Null) /\ Resume(next)
     \/ Called(name, arg, Threw) /\ Resume(next)
  /\ UNCHANGED <<store, method, request, repositionCalls>>

\* `await self.<name>(request, arg)` for a before/after hook.
Hook(line, name, arg, next) ==
  /\ pc = line
  /\ \/ Called(name, arg, Null) /\ Resume(next)
     \/ Called(name, arg, Threw) /\ Throw("Error", 0, {})
  /\ UNCHANGED <<store, method, request, repositionCalls>>

\* Required paramIds missing from request.params (remote requests only).
MissingParamIds(skipIdProperty) ==
  IF request.remote
  THEN {k \in Range(paramIds) :
          /\ ~(skipIdProperty /\ k = idProperty)
          /\ k \notin request.params}
  ELSE {}

\* Fields of request.params the schema collaborator validates.
CheckedParams(skipIdProperty) ==
  IF skipIdProperty THEN request.params \ {idProperty} ELSE request.params

\* `await self._checkParamIds(request, skipIdProperty)`.  The early return on
\* `request.params.length === 0` never happens: params is a plain object.
\* With onlyObjectValues the validated object has the keys of params.
_checkParamIds(line, skipIdProperty, next) ==
  /\ pc = line
  /\ IF \E k \in Range(paramIds) : k \notin SchemaFields
     THEN /\ Called("_checkParamIds", "", Threw)
          /\ Throw("Error", 0, {})
          /\ UNCHANGED request
     ELSE IF MissingParamIds(skipIdProperty) # {}
     THEN /\ Called("_checkParamIds", "", Threw)
          /\ Throw("BadRequestError", 0, MissingParamIds(skipIdProperty))
          /\ UNCHANGED request
     ELSE \/ /\ Called("_checkParamIds", "", Threw)
             /\ Throw("Error", 0, {})
             /\ UNCHANGED request
          \/ \E errors \in SUBSET CheckedParams(skipIdProperty) \ {{}} :
               /\ Called("_checkParamIds", "", Threw)
               /\ Throw("BadRequestError", 0, errors)
               /\ UNCHANGED request
          \/ /\ Called("_checkParamIds", "", Null)
             /\ request' = [request EXCEPT !.params = request.params]
             /\ Resume(next)
  /\ UNCHANGED <<store, method, repositionCalls>>

\* self._enrichBodyWithParamIdsIfRemote(request)
_enrichBodyWithParamIdsIfRemote(req) ==
  IF req.remote
  THEN [req EXCEPT !.body = req.body \cup (Range(paramIds) \cap req.params)]
  ELSE req

\* afterCheckParamIds, then the synchronous _enrichBodyWithParamIdsIfRemote.
HookThenEnrich(line, name, arg, next) ==
  /\ pc = line
  /\ \/ /\ Called(name, arg, Null)
        /\ request' = _enrichBodyWithParamIdsIfRemote(request)
        /\ Resume(next)
     \/ /\ Called(name, arg, Threw)
        /\ Throw("Error", 0, {})
        /\ UNCHANGED request
  /\ UNCHANGED <<store, method, repositionCalls>>

\* `var { validatedObject, errors } = await self.schema.validate(request.body, ..)`
\* then request.bodyBeforeValidation = request.body, request.body =
\* validatedObject, and the throw when errors is not empty.  The validated
\* object may carry defaults the caller did not send.
ValidateBody(line, skipFields, next) ==
  /\ pc = line
  /\ \/ /\ Called("schema.validate", "", Threw)
        /\ Throw("Error", 0, {})
        /\ UNCHANGED request
     \/ \E defaults \in SUBSET DefaultFields,
           errors \in SUBSET (SchemaFields \ skipFields) :
          /\ request' = [request EXCEPT
                           !.bodyBeforeValidation = request.body,
                           !.body = request.body \cup defaults]
          /\ IF errors # {}
             THEN /\ Called("schema.validate", "", Threw)
                  /\ Throw("UnprocessableEntityError", 0, errors)
             ELSE /\ Called("schema.validate", "", Null)
                  /\ Resume(next)
  /\ UNCHANGED <<store, method, repositionCalls>>

\* Mutant of PermissionOutcome: the Forbidden error loses the message.
PermissionOutcomeDroppingMessage(granted, message, next) ==
  IF ~granted THEN Throw("ForbiddenError", 0, {}) ELSE Resume(next)

\* `var { granted, message } = await self.checkPermissions(request, m)` and
\* `if (!granted) throw new Store.ForbiddenError(message)`.
PermissionOutcome(granted, message, next) ==
  IF ~granted THEN Throw("ForbiddenError", message, {}) ELSE Resume(next)

checkPermissions(line, next) ==
  /\ pc = line
  /\ \/ /\ Called("checkPermissions", method, Threw)
        /\ Throw("Error", 0, {})
     \/ \E granted \in BOOLEAN, message \in Messages :
          /\ granted => message = 0     \* message is read on denial only
          /\ Called("checkPermissions", method,
                    [t |-> Tri(granted), id |-> message, ids |-> {}])
          /\ PermissionOutcome(granted, message, next)
  /\ UNCHANGED <<store, method, request, repositionCalls>>

\* `request.doc = await self.implementFetchOne(request, m)`: record | absent.
implementFetchOne(line, next) ==
  /\ pc = line
  /\ \/ /\ Called("implementFetchOne", method, Threw)
        /\ Throw("Error", 0, {})
        /\ UNCHANGED request
     \/ \E doc \in {Null} \cup {Doc(i) : i \in Docs} :
          /\ Called("implementFetchOne", method, doc)
          /\ request' = [request EXCEPT !.doc = doc]
          /\ Resume(next)
  /\ UNCHANGED <<store, method, repositionCalls>>

\* `request.doc = await self.implementInsert(request, m)`: the new record.
implementInsert(line, next) ==
  /\ pc = line
  /\ \/ /\ Called("implementInsert", method, Threw)
        /\ Throw("Error", 0, {})
        /\ UNCHANGED request
     \/ \E doc \in {Doc(i) : i \in Docs} :
          /\ Called("implementInsert", method, doc)
          /\ request' = [request EXCEPT !.doc = doc]
          /\ Resume(next)
  /\ UNCHANGED <<store, method, repositionCalls>>

\* `request.doc = await self.implementUpdate(request, m)`: record | absent.
implementUpdate(line, next) ==
  /\ pc = line
  /\ \/ /\ Called("implementUpdate", method, Threw)
        /\ Throw("Error", 0, {})
        /\ UNCHANGED request
     \/ \E doc \in {Null} \cup {Doc(i) : i \in Docs} :
          /\ Called("implementUpdate", method, doc)
          /\ request' = [request EXCEPT !.doc = doc]
          /\ Resume(next)
  /\ UNCHANGED <<store, method, repositionCalls>>

\* What _makeDelete does with the value implementDelete resolved to.
AfterDelete(deleted, next) == Resume(next)

\* `await self.implementDelete(request, 'delete')`: removed record | absent.
implementDelete(line, next) ==
  /\ pc = line
  /\ \/ /\ Called("implementDelete", method, Threw)
        /\ Throw("Error", 0, {})
     \/ \E deleted \in {Null} \cup {Doc(i) : i \in Docs} :
          /\ Called("implementDelete", method, deleted)
          /\ AfterDelete(deleted, next)
  /\ UNCHANGED <<store, method, request, repositionCalls>>

\* `request.doc = await self.implementQuery(request, 'getQuery')`: a list.
implementQuery(line, next) ==
  /\ pc = line
  /\ \/ /\ Called("implementQuery", method, Threw)
        /\ Throw("Error", 0, {})
        /\ UNCHANGED request
     \/ \E docs \in SUBSET Docs :
          /\ Called("implementQuery", method, List(docs))
          /\ request' = [request EXCEPT !.doc = List(docs)]
          /\ Resume(next)
  /\ UNCHANGED <<store, method, repositionCalls>>

\* Mutant of RepositionDecision: putDefaultPosition is looked at before
\* putBefore.
RepositionDecisionDefaultFirst(positioning, fullDoc, putBefore, putDefaultPosition, existing) ==
  IF ~positioning THEN << >>
  ELSE IF putDefaultPosition # ""
    THEN << [doc |-> fullDoc, where |-> putDefaultPosition, beforeId |-> 0] >>
  ELSE IF putBefore # 0
    THEN << [doc |-> fullDoc, where |-> "before", beforeId |-> putBefore] >>
  ELSE IF ~existing
    THEN << [doc |-> fullDoc, where |-> "end", beforeId |-> 0] >>
  ELSE << >>

\* The decision table of _repositionBasedOnOptions: the arguments of the
\* implementReposition call it makes, or << >> when it makes none.
RepositionDecision(positioning, fullDoc, putBefore, putDefaultPosition, existing) ==
  IF ~positioning THEN << >>
  ELSE IF putBefore # 0
    THEN << [doc |-> fullDoc, where |-> "before", beforeId |-> putBefore] >>
  ELSE IF putDefaultPosition # ""
    THEN << [doc |-> fullDoc, where |-> putDefaultPosition, beforeId |-> 0] >>
  ELSE IF ~existing
    THEN << [doc |-> fullDoc, where |-> "end", beforeId |-> 0] >>
  ELSE << >>

\* `await self._repositionBasedOnOptions(request.doc, putBefore,
\*  putDefaultPosition, existing)`
_repositionBasedOnOptions(line, existing, next) ==
  /\ pc = line
  /\ LET calls == RepositionDecision(store.positioning, request.doc,
                                     request.options.putBefore,
                                     request.options.putDefaultPosition,
                                     existing)
     IN /\ repositionCalls' = repositionCalls \o calls
        /\ \/ /\ Called("_repositionBasedOnOptions", "", Null)
              /\ Resume(next)
           \/ /\ calls # << >>      \* implementReposition rejected
              /\ Called("_repositionBasedOnOptions", "", Threw)
              /\ Throw("Error", 0, {})
  /\ UNCHANGED <<store, method, request>>

\* Mutant of HookThenReturn: the pipeline returns without calling the hook.
ReturnWithoutHook(line, name, arg) ==
  /\ pc = line
  /\ Return(request.doc)
  /\ UNCHANGED <<store, method, request, trace, repositionCalls>>

\* The last hook of a pipeline, then `return request.doc`.
HookThenReturn(line, name, arg) ==
  /\ pc = line
  /\ \/ Called(name, arg, Null) /\ Return(request.doc)
     \/ Called(name, arg, Threw) /\ Throw("Error", 0, {})
  /\ UNCHANGED <<store, method, request, repositionCalls>>

----------------------------------------------------------------------------
\* The pipelines.

_makePost ==
  /\ method = "post"
  /\ \/ EntryStep(355, store.handlePost, 365)
     \/ Hook(365, "beforeCheckParamIds", "post", 366)
     \/ _checkParamIds(366, TRUE, 367)
     \/ HookThenEnrich(367, "afterCheckParamIds", "post", 373)
     \/ Hook(373, "beforeValidate", "post", 374)
     \/ ValidateBody(374, {idProperty}, 378)
     \/ Hook(378, "afterValidate", "post", 381)
     \/ Hook(381, "beforeCheckPermissions", "post", 382)
     \/ checkPermissions(382, 384)
     \/ Hook(384, "afterCheckPermissions", "post", 387)
     \/ Hook(387, "beforeDbOperationInsert", "post", 388)
     \/ implementInsert(388, 389)
     \/ Hook(389, "afterDbOperationInsert", "post", 392)
     \/ Hook(392, "beforeReposition", "post", 393)
     \/ _repositionBasedOnOptions(393, FALSE, 394)
     \/ Hook(394, "afterReposition", "post", 397)
     \/ HookThenReturn(397, "beforeReturn", "post")

\* Mutant of SetPutFlags: both flags are computed as `!!request.doc`.
SetPutFlagsBothFromDoc(req) ==
  [req EXCEPT !.putNew = Tri(Truthy(req.doc)),
              !.putExisting = Tri(Truthy(req.doc))]

\* After the probe of _makePut: `request.putNew = !request.doc` and
\* `request.putExisting = !!request.doc`.
SetPutFlags(req) ==
  [req EXCEPT !.putNew = Tri(~Truthy(req.doc)),
              !.putExisting = Tri(Truthy(req.doc))]

\* Mutant of HookThenSetPutFlags: the flags are not set before the
\* permission check.
HookWithoutPutFlags(line, name, arg, next) ==
  /\ pc = line
  /\ \/ Called(name, arg, Null) /\ Resume(next)
     \/ Called(name, arg, Threw) /\ Throw("Error", 0, {})
  /\ UNCHANGED <<store, method, request, repositionCalls>>

\* afterDbOperationFetchOne of _makePut, then the two assignments.
HookThenSetPutFlags(line, name, arg, next) ==
  /\ pc = line
  /\ \/ /\ Called(name, arg, Null)
        /\ request' = SetPutFlags(request)
        /\ Resume(next)
     \/ /\ Called(name, arg, Threw)
        /\ Throw("Error", 0, {})
        /\ UNCHANGED request
  /\ UNCHANGED <<store, method, repositionCalls>>

\* `if (!request.doc) { insert } else { update }` of _makePut.
PutBranch(req, insertLine, updateLine) ==
  IF ~Truthy(req.doc) THEN insertLine ELSE updateLine

_makePut ==
  /\ method = "put"
  /\ \/ EntryStep(401, store.handlePut, 411)
     \/ Hook(411, "beforeCheckParamIds", "put", 412)
     \/ _checkParamIds(412, TRUE, 413)
     \/ HookThenEnrich(413, "afterCheckParamIds", "put", 419)
     \/ Hook(419, "beforeValidate", "put", 420)
     \/ ValidateBody(420, {}, 424)
     \/ Hook(424, "afterValidate", "put", 427)
     \/ Hook(427, "beforeDbOperationFetchOne", "put", 428)
     \/ implementFetchOne(428, 429)
     \/ HookThenSetPutFlags(429, "afterDbOperationFetchOne", "put", 435)
     \/ Hook(435, "beforeCheckPermissions", "put", 436)
     \/ checkPermissions(436, 438)
     \/ Hook(438, "afterCheckPermissions", "put", PutBranch(request, 442, 447))
     \/ Hook(442, "beforeDbOperationInsert", "put", 443)
     \/ implementInsert(443, 444)
     \/ Hook(444, "afterDbOperationInsert", "put", 453)
     \/ Hook(447, "beforeDbOperationUpdate", "put", 448)
     \/ implementUpdate(448, 449)
     \/ Hook(449, "afterDbOperationUpdate", "put", 453)
     \/ Hook(453, "beforeReposition", "put", 454)
     \/ _repositionBasedOnOptions(454, request.putExisting = "true", 455)
     \/ Hook(455, "afterReposition", "put", 458)
     \/ HookThenReturn(458, "beforeReturn", "put")

_makeGet ==
  /\ method = "get"
  /\ \/ EntryStep(462, store.handleGet, 472)
     \/ Hook(472, "beforeCheckParamIds", "get", 473)
     \/ _checkParamIds(473, TRUE, 474)
     \/ Hook(474, "afterCheckParamIds", "get", 477)
     \/ Hook(477, "beforeDbOperationFetchOne", "get", 478)
     \/ implementFetchOne(478, 479)
     \/ Hook(479, "afterDbOperationFetchOne", "get", 482)
     \/ Hook(482, "beforeCheckPermissions", "get", 483)
     \/ checkPermissions(483, 485)
     \/ Hook(485, "afterCheckPermissions", "get", 488)
     \/ HookThenReturn(488, "beforeReturn", "get")

\* `await self.schema.validate(request.params, { onlyObjectValues: true })`,
\* `if (errors.length) throw new self.BadRequestError(..)`: the instance has
\* no BadRequestError (it is a static getter), so the `new` is a TypeError;
\* then `request.options.conditionsHash = validatedObject`.
ValidateSearch(line, next) ==
  /\ pc = line
  /\ \/ /\ Called("schema.validate", "", Threw)
        /\ Throw("Error", 0, {})
        /\ UNCHANGED request
     \/ \E errors \in SUBSET request.params \ {{}} :
          /\ Called("schema.validate", "", Threw)
          /\ Throw("TypeError", 0, {})
          /\ UNCHANGED request
     \/ /\ Called("schema.validate", "", Null)
        /\ request' = [request EXCEPT !.options.conditionsHash = request.params]
        /\ Resume(next)
  /\ UNCHANGED <<store, method, repositionCalls>>

_makeGetQuery ==
  /\ method = "getQuery"
  /\ \/ EntryStep(492, store.handleGet, 502)
     \/ Hook(502, "beforeCheckParamIds", "getQquery", 503)
     \/ _checkParamIds(503, TRUE, 504)
     \/ Hook(504, "beforeCheckParamIds", "getQuery", 507)
     \/ ValidateSearch(507, 513)
     \/ Hook(513, "beforeCheckPermissions", "getQuery", 514)
     \/ checkPermissions(514, 516)
     \/ Hook(516, "afterCheckPermissions", "getQuery", 519)
     \/ Hook(519, "beforeDbOperationQuery", "getQuery", 520)
     \/ implementQuery(520, 521)
     \/ Hook(521, "afterDbOperationQuery", "getQuery", 524)
     \/ HookThenReturn(524, "beforeReturn", "getQuery")

_makeDelete ==
  /\ method = "delete"
  /\ \/ EntryStep(528, store.handleDelete, 538)
     \/ Hook(538, "beforeCheckParamIds", "delete", 539)
     \/ _checkParamIds(539, TRUE, 540)
     \/ Hook(540, "beforeCheckParamIds", "delete", 543)
     \/ Hook(543, "beforeDbOperationFetchOne", "delete", 544)
     \/ implementFetchOne(544, 545)
     \/ Hook(545, "afterDbOperationFetchOne", "delete", 548)
     \/ Hook(548, "beforeCheckPermissions", "delete", 549)
     \/ checkPermissions(549, 551)
     \/ Hook(551, "afterCheckPermissions", "delete", 554)
     \/ Hook(554, "beforeDbOperationDelete", "delete", 555)
     \/ implementDelete(555, 556)
     \/ Hook(556, "afterDbOperationDelete", "delete", 559)
     \/ HookThenReturn(559, "beforeReturn", "delete")

Next ==
  \/ Call
  \/ _makePost
  \/ _makePut
  \/ _makeGet
  \/ _makeGetQuery
  \/ _makeDelete

Spec == Init /\ [][Next]_vars

----------------------------------------------------------------------------
\* Vocabulary of the properties.

Invoked(name) == \E i \in DOMAIN trace : trace[i].call = name
Times(name) == Cardinality({i \in DOMAIN trace : trace[i].call = name})
CallNames == [i \in DOMAIN trace |-> trace[i].call]
Running == method \in Verbs
\* The gate of the running pipeline has been passed or has failed.
Entered == Running /\ pc # EntryLine(method)

\* The handle flag that belongs to verb m.
HandleFlag(m) ==
  CASE m = "post" -> store.handlePost
    [] m = "put" -> store.handlePut
    [] m = "get" -> store.handleGet
    [] m = "getQuery" -> store.handleGetQuery
    [] m = "delete" -> store.handleDelete

\* The persistence operation a successful run of verb m ends up calling.
PersistenceOps(m) ==
  CASE m = "post" -> {"implementInsert"}
    [] m = "put" -> {"implementInsert", "implementUpdate"}
    [] m = "get" -> {"implementFetchOne"}
    [] m = "getQuery" -> {"implementQuery"}
    [] m = "delete" -> {"implementDelete"}

WriteOps ==
  {"implementInsert", "implementUpdate", "implementDelete", "implementQuery",
   "_repositionBasedOnOptions"}

\* The stage of this history entry failed: it threw, or permission was denied.
StageFailed(e) == e.result.t \in {"throw", "false"}

\* What the fetch-one probe of the run found (Null before the probe).
ProbeFound == \E i \in DOMAIN trace :
                trace[i].call = "implementFetchOne" /\ trace[i].result.t = "doc"
ProbeAbsent == \E i \in DOMAIN trace :
                 trace[i].call = "implementFetchOne" /\ trace[i].result.t = "null"

----------------------------------------------------------------------------
\* C1: a stage or hook that fails is the last call of its run: nothing is
\* invoked after it, and the run ends with a failure, not with a result.
C1_FailureAborts ==
  /\ \A i \in DOMAIN trace :
       StageFailed(trace[i]) =>
         /\ i = Len(trace)
         /\ outcome.state = "failed"
         /\ pc = 0
  /\ outcome.state = "failed" => pc = 0
  /\ outcome.state = "returned" =>
       \A i \in DOMAIN trace : ~StageFailed(trace[i])

\* A hook failed after the persistence operation had run.
C1_Witness ==
  /\ outcome.state = "failed"
  /\ Len(trace) > 10
  /\ trace[Len(trace)].result = Threw
  /\ trace[Len(trace)].call = "afterDbOperationInsert"

\* The stages of a create run, in order.
PostOrder ==
  << "beforeCheckParamIds", "_checkParamIds", "afterCheckParamIds",
     "beforeValidate", "schema.validate", "afterValidate",
     "beforeCheckPermissions", "checkPermissions", "afterCheckPermissions",
     "beforeDbOperationInsert", "implementInsert", "afterDbOperationInsert",
     "beforeReposition", "_repositionBasedOnOptions", "afterReposition",
     "beforeReturn" >>

C3_GateEveryVerb ==
  (Entered /\ request.remote /\ ~HandleFlag(method)) =>
    /\ outcome.state = "failed"
    /\ outcome.kind = "NotImplementedError"
    /\ trace = << >>

\* C4: a local run never consults checkPermissions and never fails with
\* Forbidden.
C4_LocalSkipsPermissions ==
  (Running /\ ~request.remote) =>
    /\ ~Invoked("checkPermissions")
    /\ outcome.kind # "ForbiddenError"

\* C5: a local run is never stopped by the handle-flag gate: it never fails
\* with NotImplemented, a failure comes from a stage that was invoked, and a
\* run that returns has called its persistence operation.
C5_LocalIgnoresHandleFlags ==
  (Running /\ ~request.remote) =>
    /\ outcome.kind # "NotImplementedError"
    /\ outcome.state = "failed" => trace # << >>
    /\ outcome.state = "returned" =>
         \E op \in PersistenceOps(method) : Invoked(op)

\* A local run of a store with every handle flag false reached persistence.
C5_Witness ==
  /\ Running /\ ~request.remote
  /\ \A m \in Verbs : ~HandleFlag(m)
  /\ \E op \in PersistenceOps(method) : Invoked(op)
  /\ method = "delete"

\* C6: in a put run the two flags are set together, exactly one is true, it
\* is the one the probe decided, and only the matching operation is called.
C6_PutBranch ==
  method = "put" =>
    /\ request.putNew = "undefined" <=> request.putExisting = "undefined"
    /\ Invoked("beforeCheckPermissions") => request.putNew # "undefined"
    /\ request.putNew # "undefined" =>
         /\ request.putNew = "true" <=> request.putExisting = "false"
         /\ request.putNew = "true" <=> ProbeAbsent
         /\ request.putExisting = "true" <=> ProbeFound
    /\ Invoked("implementInsert") =>
         request.putNew = "true" /\ ~Invoked("implementUpdate")
    /\ Invoked("implementUpdate") =>
         request.putExisting = "true" /\ ~Invoked("implementInsert")
    /\ outcome.state = "returned" =>
         /\ ProbeAbsent => Invoked("implementInsert")
         /\ ProbeFound => Invoked("implementUpdate")

C6_Witness ==
  /\ method = "put" /\ outcome.state = "returned"
  /\ request.putExisting = "true" /\ Invoked("implementUpdate")

C8_GetNotFound ==
  (method = "get" /\ ProbeAbsent) =>
    /\ trace[Len(trace)].call = "implementFetchOne"
    /\ outcome.state = "failed"
    /\ outcome.kind = "NotFoundError"

\* C9: a delete run whose probe found the record but whose delete operation
\* returned nothing fails with a generic error and returns no document.
C9_DeleteConfirmed ==
  (/\ method = "delete"
   /\ ProbeFound
   /\ \E i \in DOMAIN trace :
        trace[i].call = "implementDelete" /\ trace[i].result.t = "null") =>
    /\ trace[Len(trace)].call = "implementDelete"
    /\ outcome.state = "failed"
    /\ outcome.kind = "Error"

\* C10: in a remote run a denial by checkPermissions is the last call of the
\* run, which fails with Forbidden carrying the returned message; no insert,
\* update, delete, query or reposition follows.
C10_DenialForbids ==
  (Running /\ request.remote) =>
    \A i \in DOMAIN trace :
      (trace[i].call = "checkPermissions" /\ trace[i].result.t = "false") =>
        /\ outcome.state = "failed"
        /\ outcome.kind = "ForbiddenError"
        /\ outcome.message = trace[i].result.id
        /\ \A j \in (i + 1) .. Len(trace) : trace[j].call \notin WriteOps
        /\ i = Len(trace)

C10_Witness ==
  /\ Running /\ request.remote
  /\ outcome.kind = "ForbiddenError"
  /\ outcome.message = 1
  /\ Invoked("implementFetchOne")

----------------------------------------------------------------------------
\* The request the id check of the run saw.
IdCheckMissing ==
  {k \in Range(paramIds) :
     \E i \in DOMAIN trace :
       trace[i].call = "_checkParamIds" /\ k \notin trace[i].req.params}

\* C11: a remote get, put or delete call with a paramId (the idProperty
\* included) missing from params fails with BadRequest listing the missing
\* fields, and the id check is the last call of the run.
C11_IdentityRequired ==
  (/\ method \in {"get", "put", "delete"}
   /\ request.remote
   /\ Invoked("_checkParamIds")
   /\ IdCheckMissing # {}) =>
    /\ outcome.state = "failed"
    /\ outcome.kind = "BadRequestError"
    /\ outcome.errors = IdCheckMissing
    /\ trace[Len(trace)].call = "_checkParamIds"

\* The overwrite expectation of the request does not match the probe.
OverwriteMismatch ==
  \/ request.options.overwrite = "true" /\ ProbeAbsent
  \/ request.options.overwrite = "false" /\ ProbeFound

\* C13: a put whose overwrite expectation does not match the probe calls
\* neither insert nor update and does not return; it fails with
\* PreconditionFailed only on such a mismatch.
C13_OverwritePrecondition ==
  method = "put" =>
    /\ OverwriteMismatch =>
         /\ ~Invoked("implementInsert")
         /\ ~Invoked("implementUpdate")
         /\ outcome.state # "returned"
    /\ outcome.kind = "PreconditionFailedError" => OverwriteMismatch

----------------------------------------------------------------------------
(***************************************************************************)
(* The create and update-or-create pipelines of the older Store class      *)
(* (src/JsonRestStores-BEFORE.js, same code in src/JsonRestStores.js):     *)
(* protected fields, unique fields, the overwrite option and single-field  *)
(* mode.  pc is a line of src/JsonRestStores-BEFORE.js.  A step is the     *)
(* synchronous code in front of an `await` together with that call.  The   *)
(* tail of _makePut (1057-1206) is written in continuation style: each     *)
(* continuation is the code that follows its call, `err` is the rejection  *)
(* of the call and the other arguments are what it resolved to.  Hooks     *)
(* that transform a value (prepareBody, extrapolateDoc, prepareBeforeSend) *)
(* either reject or behave as their default implementation, the identity.  *)
(***************************************************************************)

\* Fields of the schema with `protected: true` (README, file uploads).
protectedFields == {"fileName"}
\* Fields of the schema with `unique: true`: constructor, self._uniqueFields.
_uniqueFields == {"email", "name"}
\* Fields of the schema with `singleField: true`: self._singleFields.
_singleFields == {"fileName"}
\* Fields of the schema with a `default`.
BeforeDefaultFields == {"fileName"}
\* Non-identity fields a caller may send.
BodyFields == {"name", "fileName", "email"}
BeforeSchemaFields == Range(paramIds) \cup BodyFields

\* request.bodyComputed: not there, or an object marking some fields.
NoBodyComputed == [t |-> "undefined", fields |-> {}]
BodyComputed(fields) == [t |-> "object", fields |-> fields]

BeforeNoRequest ==
  [remote |-> FALSE, params |-> {}, body |-> {},
   bodyComputed |-> NoBodyComputed,
   bodyBeforePrepare |-> {}, bodyBeforeValidation |-> {},
   defaulted |-> {},     \* fields validation filled with their default
   uniqueErrors |-> {},  \* errors of _areFieldsUnique
   carried |-> {},       \* fields of body copied from request.data.doc
   options |-> [putBefore |-> 0, putDefaultPosition |-> "",
               overwrite |-> "undefined", field |-> ""],
   data |-> [fullDoc |-> Null, fields |-> {}, doc |-> Null],
   doc |-> Null, putNew |-> "undefined", putExisting |-> "undefined"]

BeforeInit ==
  /\ store \in [handlePost : BOOLEAN, handlePut : BOOLEAN, positioning : BOOLEAN]
  /\ method = ""
  /\ request = BeforeNoRequest
  /\ pc = 0
  /\ trace = << >>
  /\ repositionCalls = << >>
  /\ outcome = NoOutcome

BeforeEntryLine(m) == IF m = "post" THEN 821 ELSE 938

\* A post or put request arrives (transport binding: remote; apiPost /
\* apiPut: local).  putBefore 0, putDefaultPosition "" and field "" stand
\* for options the caller did not set.
BeforeCall ==
  /\ pc = 0
  /\ outcome.state = "none"
  /\ \E m \in {"post", "put"}, remote \in BOOLEAN,
        params \in SUBSET Range(paramIds), body \in SUBSET BodyFields,
        bodyComputed \in {NoBodyComputed} \cup
                         {BodyComputed(c) : c \in SUBSET protectedFields},
        field \in {""} \cup _singleFields,
        overwrite \in {"undefined", "true", "false"},
        putBefore \in {0} \cup Docs,
        putDefaultPosition \in {"", "start"} :
       /\ m = "post" =>
            /\ field = "" /\ overwrite = "undefined"
            /\ putBefore = 0 /\ putDefaultPosition = ""
       /\ overwrite # "undefined" => putBefore = 0 /\ putDefaultPosition = ""
       /\ method' = m
       /\ request' = [BeforeNoRequest EXCEPT
                        !.remote = remote, !.params = params, !.body = body,
                        !.bodyComputed = bodyComputed,
                        !.options.field = field,
                        !.options.overwrite = overwrite,
                        !.options.putBefore = putBefore,
                        !.options.putDefaultPosition = putDefaultPosition]
       /\ pc' = BeforeEntryLine(m)
  /\ UNCHANGED <<store, trace, repositionCalls, outcome>>

\* _makePost: `request.data = request.data || {}` and the handle-flag check.
BeforePostEntry(line, next) ==
  /\ pc = line
  /\ Gate(store.handlePost, next)
  /\ UNCHANGED <<store, method, request, trace, repositionCalls>>

\* _makePut: the handle-flag check, which single-field mode passes, and the
\* putBefore check.
BeforePutEntry(line, next) ==
  /\ pc = line
  /\ IF ~store.handlePut /\ request.options.field = "" /\ request.remote
     THEN Throw("NotImplementedError", 0, {})
     ELSE IF request.options.putBefore # 0
     THEN Throw("Error", 0, {})
     ELSE Resume(next)
  /\ UNCHANGED <<store, method, request, trace, repositionCalls>>

\* The protected fields the pipeline deletes from the inbound body.
StrippedFields(body, bodyComputed) ==
  IF bodyComputed.t = "object"
  THEN {f \in protectedFields \cap body : f \notin bodyComputed.fields}
  ELSE {}

\* The deletion of protected fields, then `await self._doAutoLookup(..)`;
\* self.autoLookup is empty.
_doAutoLookup(line, next) ==
  /\ pc = line
  /\ request' = [request EXCEPT
                   !.body = request.body
                            \ StrippedFields(request.body, request.bodyComputed)]
  /\ Called("_doAutoLookup", method, Null)
  /\ Resume(next)
  /\ UNCHANGED <<store, method, repositionCalls>>

\* _makePost: `await self.prepareBody(..)`, request.bodyBeforePrepare.
prepareBody(line, next) ==
  /\ pc = line
  /\ \/ /\ Called("prepareBody", method, Null)
        /\ request' = [request EXCEPT !.bodyBeforePrepare = request.body]
        /\ Resume(next)
     \/ /\ Called("prepareBody", method, Threw)
        /\ Throw("Error", 0, {})
        /\ UNCHANGED request
  /\ UNCHANGED <<store, method, repositionCalls>>

\* Mutant of PiggyFieldErrors: only the missing named field is reported.
PiggyFieldErrorsNamedOnly(body, field) ==
  IF field \notin body THEN {field} ELSE {}

\* errorsInPiggyField of _makePut: the fields the single-field check lists.
PiggyFieldErrors(body, field) ==
  {f \in body : f \notin Range(paramIds) /\ f # field}
    \cup (IF field \notin body THEN {field} ELSE {})

\* _makePut: prepareBody, _enrichBodyWithParamIdsIfRemote, then the
\* single-field check.
prepareBodyThenPiggyCheck(line, next) ==
  /\ pc = line
  /\ \/ /\ Called("prepareBody", method, Null)
        /\ LET req == _enrichBodyWithParamIdsIfRemote(
                        [request EXCEPT !.bodyBeforePrepare = request.body])
               errorsInPiggyField == PiggyFieldErrors(req.body, req.options.field)
           IN /\ request' = req
              /\ IF req.options.field # "" /\ errorsInPiggyField # {}
                 THEN Throw("UnprocessableEntityError", 0, errorsInPiggyField)
                 ELSE Resume(next)
     \/ /\ Called("prepareBody", method, Threw)
        /\ Throw("Error", 0, {})
        /\ UNCHANGED request
  /\ UNCHANGED <<store, method, repositionCalls>>

\* Mutant of DropUnchangedProtected: the validated body is kept as it is.
KeepValidatedBody(validatedBody, changedBodyFields) == validatedBody

\* `if (!changedBodyFields[ field ]) delete validatedBody[ field ]` for
\* every protected field.
DropUnchangedProtected(validatedBody, changedBodyFields) ==
  validatedBody \ (protectedFields \ changedBodyFields)

\* changedBodyFields, schema.validate, the deletion of defaulted protected
\* fields, the two assignments and the throw on errors.  `enrich` is TRUE
\* where _enrichBodyWithParamIdsIfRemote comes in front (_makePost);
\* with onlyObjectValues the validator fills in no default.
BeforeValidateBody(line, enrich, onlyObjectValues, next) ==
  /\ pc = line
  /\ LET req == IF enrich THEN _enrichBodyWithParamIdsIfRemote(request)
                ELSE request
         changedBodyFields == protectedFields \cap req.body
     IN \/ /\ Called("schema.validate", "", Threw)
           /\ Throw("Error", 0, {})
           /\ request' = req
        \/ \E defaults \in SUBSET (BeforeDefaultFields \ req.body),
              errors \in SUBSET req.body :
             LET validatedBody == req.body \cup defaults
                 kept == DropUnchangedProtected(validatedBody, changedBodyFields)
             IN /\ onlyObjectValues => defaults = {}
                /\ request' = [req EXCEPT
                                 !.bodyBeforeValidation = req.body,
                                 !.body = kept,
                                 !.defaulted = defaults]
                /\ IF errors # {}
                   THEN /\ Called("schema.validate", "", Threw)
                        /\ Throw("UnprocessableEntityError", 0, errors)
                   ELSE /\ Called("schema.validate", "", Null)
                        /\ Resume(next)
  /\ UNCHANGED <<store, method, repositionCalls>>

\* The `allUnique` member of what _areFieldsUnique returns: true on both
\* of its return statements.
AllUnique(errors) == TRUE

\* `var un = await self._areFieldsUnique(id, request.body)` and
\* `if (!un.allUnique) throw new self.UnprocessableEntityError(..)`.  Every
\* unique field with a value in the body is looked up (_isFieldUnique);
\* errors holds the fields the lookup found under another id.
_areFieldsUnique(line, next) ==
  /\ pc = line
  /\ \/ /\ Called("_areFieldsUnique", "", Threw)
        /\ request.body \cap _uniqueFields # {}    \* dbLayer.select rejected
        /\ Throw("Error", 0, {})
        /\ UNCHANGED request
     \/ \E errors \in SUBSET (request.body \cap _uniqueFields) :
          /\ request' = [request EXCEPT !.uniqueErrors = errors]
          /\ IF ~AllUnique(errors)
             THEN /\ Called("_areFieldsUnique", "", Threw)
                  /\ Throw("UnprocessableEntityError", 0, errors)
             ELSE /\ Called("_areFieldsUnique", "", Null)
                  /\ Resume(next)
  /\ UNCHANGED <<store, method, repositionCalls>>

\* What _checkPermissionsProxy resolves to.
BareTrue == [t |-> "true", id |-> 0, ids |-> {}]
Permission(granted, message) == [t |-> Tri(granted), id |-> message, ids |-> {"object"}]

\* `granted` as the caller reads it.  _makePost destructures the result
\* (`var { granted, message } = ..`): a bare `true` has no such member.
\* The continuation of _makePut receives the result itself.
Granted(result, destructured) ==
  IF result.ids = {} THEN ~destructured ELSE result.t = "true"

\* `await self._checkPermissionsProxy(request, m)` and the Forbidden throw:
\* a local request resolves to `true` without calling checkPermissions, a
\* remote one to what checkPermissions resolves to (`true` by default).
_checkPermissionsProxy(line, destructured, next) ==
  /\ pc = line
  /\ IF ~request.remote
     THEN /\ UNCHANGED trace
          /\ PermissionOutcome(Granted(BareTrue, destructured), 0, next)
     ELSE \/ /\ Called("checkPermissions", method, Threw)
             /\ Throw("Error", 0, {})
          \/ \E result \in {BareTrue} \cup
                           {Permission(g, m) : g \in BOOLEAN, m \in Messages} :
               /\ result.t = "true" => result.id = 0
               /\ Called("checkPermissions", method, result)
               /\ PermissionOutcome(Granted(result, destructured), result.id, next)
  /\ UNCHANGED <<store, method, request, repositionCalls>>

\* `request.data.fullDoc = await self.implementInsert(request, forceId)`
BeforeInsert(line, next) ==
  /\ pc = line
  /\ \/ /\ Called("implementInsert", method, Threw)
        /\ Throw("Error", 0, {})
        /\ UNCHANGED request
     \/ \E doc \in {Doc(i) : i \in Docs} :
          /\ Called("implementInsert", method, doc)
          /\ request' = [request EXCEPT !.data.fullDoc = doc, !.doc = doc]
          /\ Resume(next)
  /\ UNCHANGED <<store, method, repositionCalls>>

\* _makePut, after `var fullDoc = await self.implementFetchOne(request)`:
\* NotFound for single-field mode, the overwrite check, the fork.
AfterFetchOne(req, fullDoc, newLine, existingLine) ==
  IF ~Truthy(fullDoc) /\ req.options.field # ""
  THEN Throw("NotFoundError", 0, {}) /\ request' = req
  ELSE IF \/ req.options.overwrite = "false" /\ Truthy(fullDoc)
          \/ req.options.overwrite = "true" /\ ~Truthy(fullDoc)
  THEN Throw("PreconditionFailedError", 0, {}) /\ request' = req
  ELSE IF ~Truthy(fullDoc)
  THEN Resume(newLine) /\ request' = [req EXCEPT !.putNew = "true"]
  ELSE Resume(existingLine) /\ request' = [req EXCEPT !.putExisting = "true"]

\* `var fullDoc = await self.implementFetchOne(request)`: a record, with a
\* value in some of its protected fields, or nothing.
BeforeFetchOne(line, newLine, existingLine) ==
  /\ pc = line
  /\ \/ /\ Called("implementFetchOne", method, Threw)
        /\ Throw("Error", 0, {})
        /\ UNCHANGED request
     \/ \E fullDoc \in {Null} \cup {Doc(i) : i \in Docs},
           fields \in SUBSET protectedFields :
          /\ ~Truthy(fullDoc) => fields = {}
          /\ Called("implementFetchOne", method, fullDoc)
          /\ AfterFetchOne([request EXCEPT !.data.fullDoc = fullDoc,
                                           !.data.fields = fields,
                                           !.doc = fullDoc],
                           fullDoc, newLine, existingLine)
  /\ UNCHANGED <<store, method, repositionCalls>>

\* `request.data.doc = await self.extrapolateDocProxy(request, m, fullDoc)`
extrapolateDocProxy(line, next) ==
  /\ pc = line
  /\ \/ /\ Called("extrapolateDocProxy", method, request.data.fullDoc)
        /\ request' = [request EXCEPT !.data.doc = request.data.fullDoc]
        /\ Resume(next)
     \/ /\ Called("extrapolateDocProxy", method, Threw)
        /\ Throw("Error", 0, {})
        /\ UNCHANGED request
  /\ UNCHANGED <<store, method, repositionCalls>>

\* Mutant of CarriedFields: nothing is copied from the stored record.
CarriedNothing(body, docFields) == {}

\* The protected fields the update branch of _makePut copies from
\* request.data.doc: not in the body, with a value in the doc.
CarriedFields(body, docFields) ==
  {f \in protectedFields : f \notin body /\ f \in docFields}

\* afterCheckPermissions of the update branch, schema.cleanup, then the
\* copy of the protected fields the body does not set.
HookThenCarry(line, name, arg, next) ==
  /\ pc = line
  /\ \/ /\ Called(name, arg, Null)
        /\ LET carried == CarriedFields(request.body, request.data.fields)
           IN request' = [request EXCEPT !.body = request.body \cup carried,
                                         !.carried = carried]
        /\ Resume(next)
     \/ /\ Called(name, arg, Threw)
        /\ Throw("Error", 0, {})
        /\ UNCHANGED request
  /\ UNCHANGED <<store, method, repositionCalls>>

\* `self.implementUpdate(request, !request.options.field, ..)`: the record
\* after the update, which must be there.
BeforeUpdate(line, next) ==
  /\ pc = line
  /\ \/ /\ Called("implementUpdate", method, Threw)
        /\ Throw("Error", 0, {})
        /\ UNCHANGED request
     \/ /\ Called("implementUpdate", method, Null)
        /\ Throw("Error", 0, {})
        /\ UNCHANGED request
     \/ \E fullDocAfter \in {Doc(i) : i \in Docs} :
          /\ Called("implementUpdate", method, fullDocAfter)
          /\ request' = [request EXCEPT !.doc = fullDocAfter]
          /\ Resume(next)
  /\ UNCHANGED <<store, method, repositionCalls>>

Before_makePost ==
  /\ method = "post"
  /\ \/ BeforePostEntry(821, 832)
     \/ _checkParamIds(832, TRUE, 850)
     \/ _doAutoLookup(850, 852)
     \/ prepareBody(852, 876)
     \/ BeforeValidateBody(876, TRUE, FALSE, 894)
     \/ Hook(894, "afterValidate", "post", 896)
     \/ _areFieldsUnique(896, 900)
     \/ _checkPermissionsProxy(900, TRUE, 903)
     \/ Hook(903, "afterCheckPermissions", "post", 910)
     \/ BeforeInsert(910, 912)
     \/ _repositionBasedOnOptions(912, FALSE, 914)
     \/ Hook(914, "afterDbOperation", "post", 916)
     \/ extrapolateDocProxy(916, 918)
     \/ Hook(918, "prepareBeforeSendProxy", "post", 920)
     \/ HookThenReturn(920, "afterEverything", "post")

Before_makePut ==
  /\ method = "put"
  /\ \/ BeforePutEntry(938, 954)
     \/ _checkParamIds(954, FALSE, 973)
     \/ _doAutoLookup(973, 976)
     \/ prepareBodyThenPiggyCheck(976, 1012)
     \/ BeforeValidateBody(1012, FALSE, request.options.field # "", 1030)
     \/ Hook(1030, "afterValidate", "put", 1032)
     \/ BeforeFetchOne(1032, 1052, 1122)
     \* a new record
     \/ _areFieldsUnique(1052, 1057)
     \/ _checkPermissionsProxy(1057, FALSE, 1062)
     \/ Hook(1062, "afterCheckPermissions", "put", 1073)
     \/ BeforeInsert(1073, 1078)
     \/ _repositionBasedOnOptions(1078, FALSE, 1081)
     \/ Hook(1081, "afterDbOperation", "put", 1084)
     \/ extrapolateDocProxy(1084, 1089)
     \/ Hook(1089, "prepareBeforeSendProxy", "put", 1094)
     \/ HookThenReturn(1094, "afterEverything", "put")
     \* an existing record
     \/ _areFieldsUnique(1122, 1127)
     \/ extrapolateDocProxy(1127, 1133)
     \/ _checkPermissionsProxy(1133, FALSE, 1138)
     \/ HookThenCarry(1138, "afterCheckPermissions", "put", 1153)
     \/ BeforeUpdate(1153, 1161)
     \/ _repositionBasedOnOptions(1161, TRUE, 1164)
     \/ Hook(1164, "afterDbOperation", "put", 1167)
     \/ Hook(1167, "extrapolateDocProxy", "put", 1172)
     \/ Hook(1172, "prepareBeforeSendProxy", "put", 1177)
     \/ HookThenReturn(1177, "afterEverything", "put")

BeforeNext ==
  \/ BeforeCall
  \/ Before_makePost
  \/ Before_makePut

SpecBefore == BeforeInit /\ [][BeforeNext]_vars

----------------------------------------------------------------------------
\* Properties of the older pipelines (SpecBefore).

\* The body the caller sent: the request of the first call of the run.
InboundBody == trace[1].req.body

\* The request handed to the last call of `name`.
RequestAt(name) ==
  LET i == CHOOSE j \in DOMAIN trace :
             /\ trace[j].call = name
             /\ \A k \in DOMAIN trace : trace[k].call = name => k <= j
  IN trace[i].req

\* request.bodyComputed[ f ] is truthy.
MarkedComputed(f) ==
  request.bodyComputed.t = "object" /\ f \in request.bodyComputed.fields

\* C12: when _areFieldsUnique found unique fields of the validated body
\* stored under another id, the run fails with UnprocessableEntity listing
\* all of them, and neither insert nor update is invoked.
C12_UniqueConflict ==
  request.uniqueErrors # {} =>
    /\ outcome.state = "failed"
    /\ outcome.kind = "UnprocessableEntityError"
    /\ outcome.errors = request.uniqueErrors
    /\ ~Invoked("implementInsert")
    /\ ~Invoked("implementUpdate")

\* C14: a protected field of the body handed to schema validation is one
\* the caller marked computed, also when the request has no bodyComputed.
C14_ProtectedStripped ==
  Invoked("schema.validate") =>
    \A f \in protectedFields \cap RequestAt("schema.validate").body :
      MarkedComputed(f)

PiggyChecked ==
  /\ method = "put"
  /\ request.options.field # ""
  /\ \E i \in DOMAIN trace :
       trace[i].call = "prepareBody" /\ trace[i].result = Null

\* The body the single-field check saw.
PiggyBody ==
  IF Invoked("schema.validate")
  THEN RequestAt("schema.validate").body
  ELSE request.body

\* Fields of that body that are neither a paramId nor the named field,
\* and the named field when the body lacks it.
PiggyOffending ==
  (PiggyBody \ (Range(paramIds) \cup {request.options.field}))
    \cup ({request.options.field} \ PiggyBody)

\* C17: in single-field mode a body that lacks the named field or has a
\* field that is neither a paramId nor the named field fails with
\* UnprocessableEntity listing every offending field, before validation
\* and any persistence operation; any other body passes the check.
C17_SingleFieldBody ==
  PiggyChecked =>
    IF PiggyOffending # {}
    THEN /\ outcome.state = "failed"
         /\ outcome.kind = "UnprocessableEntityError"
         /\ outcome.errors = PiggyOffending
         /\ trace[Len(trace)].call = "prepareBody"
    ELSE ~(outcome.state = "failed" /\ trace[Len(trace)].call = "prepareBody")

\* C17 witness: both kinds of offending field are listed together.
C17_Witness ==
  /\ PiggyChecked
  /\ request.options.field \in PiggyOffending
  /\ PiggyOffending # {request.options.field}
  /\ outcome.errors = PiggyOffending

\* C18: in single-field mode a put with putBefore or putDefaultPosition is
\* rejected and never reaches the reposition operation.
C18_NoPlacementInSingleField ==
  (/\ method = "put"
   /\ request.options.field # ""
   /\ request.options.putBefore # 0 \/ request.options.putDefaultPosition # "") =>
    /\ ~Invoked("_repositionBasedOnOptions")
    /\ repositionCalls = << >>
    /\ outcome.state # "returned"

----------------------------------------------------------------------------
(***************************************************************************)
(* _resolveQueryConditions (src/JsonRestStores-BEFORE.js 388-571), a pure  *)
(* function of the condition template, the filter values (conditionsHash)  *)
(* and the allowed fields.  A JavaScript string is the sequence of its     *)
(* atoms: words and the characters the resolver looks at ('#', ',', ' ').  *)
(* An option that is not set and the empty string are both << >>: the code *)
(* tests options for truthiness only.  conditionsHash is a function from   *)
(* the keys that are defined to their values, allowedFields the set of     *)
(* keys with a truthy entry.                                               *)
(***************************************************************************)

\* Longest list of arguments of the root node of a template.
MaxArgs == 2

Word(w) == <<w>>
\* '#' + k + '#'
Reference(k) == <<"#">> \o k \o <<"#">>

\* String.prototype.split: the pieces of s between the occurrences of the
\* one-atom separator sep.
RECURSIVE split(_, _)
split(s, sep) ==
  IF \A i \in DOMAIN s : s[i] # sep
  THEN <<s>>
  ELSE LET i == CHOOSE j \in DOMAIN s :
                  s[j] = sep /\ \A k \in 1 .. (j - 1) : s[k] # sep
       IN <<SubSeq(s, 1, i - 1)>> \o split(SubSeq(s, i + 1, Len(s)), sep)

\* arg.match(/^#(.*?)#$/)
MatchesReference(arg) == Len(arg) >= 2 /\ arg[1] = "#" /\ arg[Len(arg)] = "#"
\* m[ 1 ] of that match
ReferencedField(arg) == SubSeq(arg, 2, Len(arg) - 1)

\* JSON.parse(JSON.stringify(conditionsHash)): a new object with the same
\* keys; the values are strings, which the round trip gives back.
JsonCopyOfHash(conditionsHash) ==
  [k \in DOMAIN conditionsHash |-> conditionsHash[k]]
\* JSON.parse(JSON.stringify(allowedFields)): every entry of a schema
\* structure is an object, whose copy is an object too (truthy).
JsonCopyOfFields(allowedFields) == {k \in allowedFields : TRUE}

\* Mutant of Bind: the token is not assigned.
BindNothing(conditionsHash, k, value) == conditionsHash

\* conditionsHash[ k ] = value
Bind(conditionsHash, k, value) ==
  [x \in DOMAIN conditionsHash \cup {k} |->
     IF x = k THEN value ELSE conditionsHash[x]]

\* A node of a template or of a resolved tree.  form is "node" for and / or
\* / each, and for a leaf tells what args[ 1 ] is: "unary" (not there),
\* "scalar" (arg1 has one element) or "array".  noIf: no `if` function.
NoNode ==
  [type |-> "", form |-> "", args |-> << >>, arg0 |-> << >>, arg1 |-> << >>,
   ifDefined |-> << >>, ifNotDefined |-> << >>, if |-> "none",
   value |-> << >>, as |-> << >>, linkType |-> "", separator |-> << >>]
\* `{}`: the empty condition.
EmptyCondition == NoNode

Leaf(type, arg0, arg1) ==
  [NoNode EXCEPT !.type = type, !.form = "scalar", !.arg0 = arg0, !.arg1 = <<arg1>>]
UnaryLeaf(type, arg0) ==
  [NoNode EXCEPT !.type = type, !.form = "unary", !.arg0 = arg0]
ArrayLeaf(type, arg0, arg1) ==
  [NoNode EXCEPT !.type = type, !.form = "array", !.arg0 = arg0, !.arg1 = arg1]
Composite(type, args) ==
  [NoNode EXCEPT !.type = type, !.form = "node", !.args = args]
Each(value, args) ==
  [NoNode EXCEPT !.type = "each", !.form = "node", !.value = value, !.args = args]

\* What a call (of visitQueryConditions, goThroughArgs, a loop) leaves
\* behind: f is "false" (return false), "throw" (the Error of line 538),
\* "TypeError" (a property of undefined was read), or "" otherwise; fc the
\* node made up; conditionsHash and allowedFields the shared private copies.
Visited(f, fc, conditionsHash, allowedFields) ==
  [f |-> f, fc |-> fc, conditionsHash |-> conditionsHash,
   allowedFields |-> allowedFields]

\* The call threw: nothing after it runs.
Thrown(v) == v.f \in {"throw", "TypeError"}

\* Mutant of GuardsPass: ifNotDefined and the predicate are not looked at.
GuardsPassIfDefinedOnly(o, conditionsHash) ==
  o.ifDefined # << >> =>
    \A i \in DOMAIN split(o.ifDefined, ",") :
      split(o.ifDefined, ",")[i] \in DOMAIN conditionsHash

\* The three guards in front of visitQueryConditions: TRUE when o goes on.
GuardsPass(o, conditionsHash) ==
  /\ o.ifDefined # << >> =>
       \A i \in DOMAIN split(o.ifDefined, ",") :
         split(o.ifDefined, ",")[i] \in DOMAIN conditionsHash
  /\ o.ifNotDefined # << >> =>
       \A i \in DOMAIN split(o.ifNotDefined, ",") :
         split(o.ifNotDefined, ",")[i] \notin DOMAIN conditionsHash
  /\ o.if # "false"

\* Mutant of ResolvedArg: the reference is left in place.
ArgLeftInPlace(arg, conditionsHash) == arg

\* What the leaf pushes to resultArgs for one element of sourceArgs.
ResolvedArg(arg, conditionsHash) ==
  IF MatchesReference(arg) THEN conditionsHash[ReferencedField(arg)] ELSE arg

\* The leaf branch of visitQueryConditions.
VisitLeaf(o, conditionsHash, allowedFields) ==
  IF o.form = ""
  THEN \* `o.args[ 0 ]` of an object without args, such as `{}`
       Visited("TypeError", NoNode, conditionsHash, allowedFields)
  ELSE IF o.form = "unary"
  THEN Visited("", UnaryLeaf(o.type, o.arg0), conditionsHash, allowedFields)
  ELSE LET sourceArgs == o.arg1
           references == {i \in DOMAIN sourceArgs : MatchesReference(sourceArgs[i])}
           \* the first element the loop stops at, if any
           stops == {i \in references :
                       \/ ReferencedField(sourceArgs[i]) \notin allowedFields
                       \/ ReferencedField(sourceArgs[i]) \notin DOMAIN conditionsHash}
           first == CHOOSE i \in stops : \A j \in stops : i <= j
       IN IF stops # {}
          THEN IF ReferencedField(sourceArgs[first]) \notin allowedFields
               THEN Visited("throw", NoNode, conditionsHash, allowedFields)
               ELSE Visited("false", NoNode, conditionsHash, allowedFields)
          ELSE Visited("",
                 [NoNode EXCEPT
                    !.type = o.type, !.form = o.form, !.arg0 = o.arg0,
                    !.arg1 = [i \in DOMAIN sourceArgs |->
                                ResolvedArg(sourceArgs[i], conditionsHash)]],
                 conditionsHash, allowedFields)

\* Mutant of PushChild: the child is pushed whatever its number of args.
PushChildAsIs(queryCondition, newQueryCondition, args) ==
  Append(args, newQueryCondition)

\* goThroughArgs, after the visit of one child did not return false: what
\* fc.args is after the child was looked at.
PushChild(queryCondition, newQueryCondition, args) ==
  IF queryCondition.type \in {"and", "or", "each"}
  THEN IF Len(newQueryCondition.args) = 0 THEN args
       ELSE IF Len(newQueryCondition.args) = 1
       THEN Append(args, newQueryCondition.args[1])
       ELSE Append(args, newQueryCondition)
  ELSE Append(args, newQueryCondition)

\* fc after the copy of the keys of o other than args and type.
CopyOfKeys(o) == [o EXCEPT !.args = << >>]

RECURSIVE visitQueryConditions(_, _, _)
RECURSIVE goThroughArgs(_, _, _, _, _)
RECURSIVE eachValue(_, _, _, _, _, _)

\* goThroughArgs over the elements i .. of o.args; fc.args is fc.args so far.
goThroughArgs(o, i, fc, conditionsHash, allowedFields) ==
  IF i > Len(o.args)
  THEN Visited("", fc, conditionsHash, allowedFields)
  ELSE LET queryCondition == o.args[i]
           v == visitQueryConditions(queryCondition, conditionsHash, allowedFields)
       IN IF Thrown(v) THEN v
          ELSE goThroughArgs(o, i + 1,
                 IF v.f = "false" THEN fc
                 ELSE [fc EXCEPT !.args = PushChild(queryCondition, v.fc, fc.args)],
                 v.conditionsHash, v.allowedFields)

\* allValues.forEach of the each branch, from element i on.
eachValue(o, allValues, i, fc, conditionsHash, allowedFields) ==
  IF i > Len(allValues)
  THEN Visited("", fc, conditionsHash, allowedFields)
  ELSE LET k == IF o.as # << >> THEN o.as ELSE o.value \o Word("Each")
           v == goThroughArgs(o, 1, fc, Bind(conditionsHash, k, allValues[i]),
                              allowedFields \cup {k})
       IN IF Thrown(v) THEN v
          ELSE eachValue(o, allValues, i + 1, v.fc, v.conditionsHash, v.allowedFields)

visitQueryConditions(o, conditionsHash, allowedFields) ==
  IF ~GuardsPass(o, conditionsHash)
  THEN Visited("false", NoNode, conditionsHash, allowedFields)
  ELSE IF o.type \in {"and", "or"}
  THEN goThroughArgs(o, 1, CopyOfKeys(o), conditionsHash, allowedFields)
  ELSE IF o.type = "each"
  THEN LET fc == [CopyOfKeys(o) EXCEPT
                    !.type = IF o.linkType # "" THEN o.linkType ELSE "and"]
       IN IF o.value \notin DOMAIN conditionsHash \/ conditionsHash[o.value] = << >>
          THEN Visited("", fc, conditionsHash, allowedFields)
          ELSE eachValue(o,
                 split(conditionsHash[o.value],
                       IF o.separator # << >> THEN o.separator[1] ELSE " "),
                 1, fc, conditionsHash, allowedFields)
  ELSE VisitLeaf(o, conditionsHash, allowedFields)

\* The body of _resolveQueryConditions: `res = {}`, the visit, the
\* top-level check.  f is "throw" or "TypeError" when the visit threw;
\* conditionsHash and allowedFields are the objects the visit wrote to, as
\* the call leaves them.
Resolved(queryConditions, conditionsHash, allowedFields) ==
  LET v == visitQueryConditions(queryConditions, JsonCopyOfHash(conditionsHash),
                                JsonCopyOfFields(allowedFields))
      res == IF v.f = "false" THEN EmptyCondition ELSE v.fc
      written == [conditionsHash |-> v.conditionsHash,
                  allowedFields |-> v.allowedFields]
  IN IF Thrown(v) THEN [f |-> v.f, res |-> EmptyCondition] @@ written
     ELSE IF res.type \in {"and", "or"} /\ Len(res.args) = 0
     THEN [f |-> "", res |-> EmptyCondition] @@ written
     ELSE IF res.type \in {"and", "or"} /\ Len(res.args) = 1
     THEN [f |-> "", res |-> res.args[1]] @@ written
     ELSE [f |-> "", res |-> res] @@ written

\* The searchable fields of the store and the values a filter may give them.
surname == Word("surname")
name == Word("name")
SearchFields == {surname, name}
FilterValuesOf(k) ==
  IF k = surname THEN {Word("Mobily"), << >>, Reference(name)}
  ELSE {Word("Tony"), <<"a", " ", "b", " ", "c">>, <<"Tony", ",", "Mobily">>}
FilterMappings ==
  UNION {{h \in [D -> UNION {FilterValuesOf(k) : k \in D}] :
            \A k \in D : h[k] \in FilterValuesOf(k)} : D \in SUBSET SearchFields}

\* Leaves of the templates.
SurnameLeaf == Leaf("eq", surname, Reference(surname))
NameLeaf == Leaf("contains", name, Reference(name))
LiteralLeaf == Leaf("eq", surname, Word("Mobily"))
NullLeaf == UnaryLeaf("isNull", name)
InLeaf == ArrayLeaf("in", surname, <<Word("Smith"), Reference(surname)>>)
EachLeaf == Leaf("startsWith", name, Reference(name \o Word("Each")))
GuardedLeaf == [LiteralLeaf EXCEPT !.ifDefined = <<"surname", ",", "name">>]
TokenGuardedLeaf == [NullLeaf EXCEPT !.ifDefined = name \o Word("Each")]
TemplateLeaves ==
  {SurnameLeaf, NameLeaf, LiteralLeaf, NullLeaf, InLeaf, EachLeaf, GuardedLeaf,
   TokenGuardedLeaf}

\* Nodes nested in the root of a template.
InnerNodes ==
  {Composite("and", << >>),
   Composite("and", <<SurnameLeaf>>),
   Composite("and", <<SurnameLeaf, NameLeaf>>),
   Composite("or", <<NameLeaf>>),
   Composite("or", <<SurnameLeaf, LiteralLeaf>>),
   Composite("and", <<Composite("or", <<SurnameLeaf>>)>>),
   Composite("or", <<Composite("and", <<SurnameLeaf, NameLeaf>>), LiteralLeaf>>),
   [Composite("and", <<LiteralLeaf, NullLeaf>>) EXCEPT !.ifNotDefined = name],
   [Composite("or", <<LiteralLeaf, NullLeaf>>) EXCEPT !.if = "false"],
   Each(name, <<EachLeaf>>),
   [Each(name, <<EachLeaf, SurnameLeaf>>) EXCEPT !.linkType = "or"],
   [Each(name, <<Leaf("eq", name, Reference(Word("token")))>>)
      EXCEPT !.as = Word("token")],
   [Each(name, <<EachLeaf>>) EXCEPT !.separator = <<",">>, !.ifDefined = surname]}

ArgLists(S) == UNION {[1 .. n -> S] : n \in 0 .. MaxArgs}

\* The templates: a leaf, a nested node, or an and / or of up to MaxArgs
\* of those.
Templates ==
  TemplateLeaves \cup InnerNodes
    \cup {Composite(type, args) :
            type \in {"and", "or"}, args \in ArgLists(TemplateLeaves \cup InnerNodes)}

\* A store with a template, and a getQuery request with its filter values.
ResolveInit ==
  /\ store = [handleGetQuery |-> TRUE]
  /\ method = "getQuery"
  /\ \E queryConditions \in Templates, conditionsHash \in FilterMappings,
        allowedFields \in {SearchFields, {surname}} :
       request = [queryConditions |-> queryConditions,
                  conditionsHash |-> conditionsHash,
                  allowedFields |-> allowedFields]
  /\ pc = 0
  /\ trace = << >>
  /\ repositionCalls = << >>
  /\ outcome = NoOutcome

\* Mutant of CallersHash: the writes of the visit reach the caller's object.
CallersHashWrittenThrough(conditionsHash, written) == written

\* The caller's conditionsHash after the call: line 393 rebinds the
\* parameter to a copy, and `written`, the object line 504 assigns to, is
\* that copy.
CallersHash(conditionsHash, written) == conditionsHash
\* The caller's allowedFields after the call: line 394, line 505.
CallersFields(allowedFields, written) == allowedFields

\* One call self._resolveQueryConditions(queryConditions, conditionsHash,
\* allowedFields) with the objects of the request: its outcome, and the
\* three objects as the caller finds them afterwards.  No statement of the
\* function assigns to a property of the template or of a node of it.
ResolveCall(queryConditions) ==
  LET before == [request EXCEPT !.queryConditions = queryConditions]
      r == Resolved(queryConditions, request.conditionsHash, request.allowedFields)
  IN /\ outcome' = IF r.f = ""
                    THEN [NoOutcome EXCEPT !.state = "returned", !.doc = r.res]
                    ELSE [NoOutcome EXCEPT
                            !.state = "failed",
                            !.kind = IF r.f = "throw" THEN "Error" ELSE "TypeError"]
     /\ request' = [queryConditions |-> queryConditions,
                    conditionsHash |->
                      CallersHash(request.conditionsHash, r.conditionsHash),
                    allowedFields |->
                      CallersFields(request.allowedFields, r.allowedFields)]
     /\ trace' = Append(trace,
                        [call |-> "_resolveQueryConditions", method |-> method,
                         req |-> before,
                         result |-> IF r.f = "" THEN r.res ELSE Threw])
     /\ pc' = pc + 1
     /\ UNCHANGED <<store, method, repositionCalls>>

\* The call with the template of the store.
_resolveQueryConditions ==
  /\ pc = 0
  /\ ResolveCall(request.queryConditions)

\* A second call, with the tree the first one returned as the template.
ResolveTheResolved ==
  /\ pc = 1
  /\ outcome.state = "returned"
  /\ ResolveCall(outcome.doc)

ResolveNext == _resolveQueryConditions \/ ResolveTheResolved

SpecResolve == ResolveInit /\ [][ResolveNext]_vars

----------------------------------------------------------------------------
\* Properties of the resolver (SpecResolve).

\* The leaf a template leaf resolves to under the filter values h: the
\* references replaced by their values.
SubstitutedLeaf(leaf, h) ==
  [NoNode EXCEPT
     !.type = leaf.type, !.form = leaf.form, !.arg0 = leaf.arg0,
     !.arg1 = [i \in DOMAIN leaf.arg1 |->
                 IF MatchesReference(leaf.arg1[i])
                 THEN h[ReferencedField(leaf.arg1[i])]
                 ELSE leaf.arg1[i]]]

\* Every reference of the leaf has a value in h.
LeafHasValues(leaf, h) ==
  \A i \in DOMAIN leaf.arg1 :
    MatchesReference(leaf.arg1[i]) => ReferencedField(leaf.arg1[i]) \in DOMAIN h

\* The binding an each node injects.
BindingOf(node) == IF node.as # << >> THEN node.as ELSE node.value \o Word("Each")

\* Every reference of the template names an allowed field or the binding
\* of an enclosing each node.
RECURSIVE WellScoped(_, _)
WellScoped(node, fields) ==
  IF node.form = "node"
  THEN \A i \in DOMAIN node.args :
         WellScoped(node.args[i],
                    IF node.type = "each" THEN fields \cup {BindingOf(node)}
                    ELSE fields)
  ELSE \A i \in DOMAIN node.arg1 :
         MatchesReference(node.arg1[i]) => ReferencedField(node.arg1[i]) \in fields

\* The bindings the each nodes of the template inject.
RECURSIVE Bindings(_)
Bindings(node) ==
  (IF node.type = "each" THEN {BindingOf(node)} ELSE {})
    \cup UNION {Bindings(node.args[i]) : i \in DOMAIN node.args}

\* The fields the guards of the node itself name.
GuardNames(node) ==
  (IF node.ifDefined = << >> THEN {}
   ELSE Range(split(node.ifDefined, ",")))
    \cup (IF node.ifNotDefined = << >> THEN {}
          ELSE Range(split(node.ifNotDefined, ",")))

\* The guards of the template name filter fields only, never the binding
\* of an each node.
RECURSIVE GuardsOnFilter(_, _)
GuardsOnFilter(node, bindings) ==
  /\ GuardNames(node) \cap bindings = {}
  /\ \A i \in DOMAIN node.args : GuardsOnFilter(node.args[i], bindings)

RECURSIVE NoEach(_)
NoEach(node) ==
  node.type # "each" /\ \A i \in DOMAIN node.args : NoEach(node.args[i])

\* The leaves of a resolved tree, left to right.
RECURSIVE LeavesOf(_)
RECURSIVE LeavesOfArgs(_, _)
LeavesOfArgs(args, i) ==
  IF i > Len(args) THEN << >> ELSE LeavesOf(args[i]) \o LeavesOfArgs(args, i + 1)
LeavesOf(node) ==
  IF node = EmptyCondition THEN << >>
  ELSE IF node.form = "node" THEN LeavesOfArgs(node.args, 1)
  ELSE <<node>>

\* The leaves the template stands for under h, left to right: each leaf
\* of a node whose guards pass, once per token of the enclosing each
\* nodes, with its references replaced, unless a reference has no value.
RECURSIVE ExpectedLeaves(_, _)
RECURSIVE ExpectedLeavesOfArgs(_, _, _)
RECURSIVE ExpectedLeavesOfTokens(_, _, _, _)
ExpectedLeavesOfArgs(args, i, h) ==
  IF i > Len(args) THEN << >>
  ELSE ExpectedLeaves(args[i], h) \o ExpectedLeavesOfArgs(args, i + 1, h)
ExpectedLeavesOfTokens(node, tokens, i, h) ==
  IF i > Len(tokens) THEN << >>
  ELSE ExpectedLeavesOfArgs(node.args, 1, Bind(h, BindingOf(node), tokens[i]))
         \o ExpectedLeavesOfTokens(node, tokens, i + 1, h)
ExpectedLeaves(node, h) ==
  IF ~GuardsPass(node, h) THEN << >>
  ELSE IF node.type = "each"
  THEN IF node.value \notin DOMAIN h \/ h[node.value] = << >> THEN << >>
       ELSE ExpectedLeavesOfTokens(node,
              split(h[node.value],
                    IF node.separator # << >> THEN node.separator[1] ELSE " "),
              1, h)
  ELSE IF node.form = "node" THEN ExpectedLeavesOfArgs(node.args, 1, h)
  ELSE IF LeafHasValues(node, h) THEN <<SubstitutedLeaf(node, h)>>
  ELSE << >>

\* C19: the leaves of the resolved tree are the leaves of the template, in
\* order, each reference #x# (x allowed) replaced by the filter value of x;
\* a leaf with a reference that has no value is not there; a leaf with a
\* literal value keeps its type and args.  {type:'eq', args:['surname',
\* '#surname#']} gives {type:'eq', args:['surname','Mobily']} for
\* {surname:'Mobily'} and the empty condition for a filter without surname.
C19_LeafSubstitution ==
  (/\ outcome.state = "returned"
   /\ WellScoped(request.queryConditions, request.allowedFields)
   /\ GuardsOnFilter(request.queryConditions, Bindings(request.queryConditions))) =>
    /\ LeavesOf(outcome.doc)
         = ExpectedLeaves(request.queryConditions, request.conditionsHash)
    /\ request.queryConditions = SurnameLeaf =>
         outcome.doc = IF surname \in DOMAIN request.conditionsHash
                       THEN Leaf("eq", surname, request.conditionsHash[surname])
                       ELSE EmptyCondition
    /\ request.queryConditions = LiteralLeaf => outcome.doc = LiteralLeaf

\* C19 witness: of two leaves with a reference, the one without a value is
\* dropped and the other carries the filter value.
C19_Witness ==
  /\ request.queryConditions = Composite("and", <<NameLeaf, SurnameLeaf>>)
  /\ DOMAIN request.conditionsHash = {surname}
  /\ request.conditionsHash[surname] = Word("Mobily")
  /\ outcome.state = "returned"
  /\ outcome.doc = Leaf("eq", surname, Word("Mobily"))

\* No and / or node of the tree has fewer than two children.
RECURSIVE NoShortComposite(_)
NoShortComposite(node) ==
  node.form = "node" =>
    /\ Len(node.args) >= 2
    /\ \A i \in DOMAIN node.args : NoShortComposite(node.args[i])

\* The collapse rule, for a template of and / or nodes and leaves: << >>
\* when the node drops, else the one node it resolves to.
RECURSIVE Collapsed(_, _)
RECURSIVE Survivors(_, _, _)
Survivors(args, i, h) ==
  IF i > Len(args) THEN << >>
  ELSE Collapsed(args[i], h) \o Survivors(args, i + 1, h)
Collapsed(node, h) ==
  IF ~GuardsPass(node, h) THEN << >>
  ELSE IF node.form = "node"
  THEN LET survivors == Survivors(node.args, 1, h)
       IN IF Len(survivors) = 0 THEN << >>
          ELSE IF Len(survivors) = 1 THEN survivors
          ELSE <<[node EXCEPT !.args = survivors]>>
  ELSE IF LeafHasValues(node, h) THEN <<SubstitutedLeaf(node, h)>>
  ELSE << >>

\* C20: in the resolved tree no and / or node has fewer than two children,
\* at any depth; for a template of and / or nodes and leaves the result is
\* what the collapse rule gives: a node whose children all drop is dropped
\* (the empty condition at the root), a node with one surviving child is
\* that child, a node with more keeps its form and the order of children.
C20_CompositeCollapse ==
  outcome.state = "returned" =>
    /\ NoShortComposite(outcome.doc)
    /\ NoEach(request.queryConditions) =>
         LET c == Collapsed(request.queryConditions, request.conditionsHash)
         IN outcome.doc = IF c = << >> THEN EmptyCondition ELSE c[1]

\* C20 witness: a chain of one-child nodes became its leaf, a dropped
\* child is gone, and the nodes with two children are kept.
C20_Witness ==
  /\ request.queryConditions =
       Composite("and",
         <<Composite("and", <<Composite("or", <<SurnameLeaf>>)>>),
           Composite("or", <<SurnameLeaf, LiteralLeaf>>)>>)
  /\ DOMAIN request.conditionsHash = {surname}
  /\ request.conditionsHash[surname] = Word("Mobily")
  /\ outcome.state = "returned"
  /\ outcome.doc = Composite("and",
                     <<LiteralLeaf, Composite("or", <<LiteralLeaf, LiteralLeaf>>)>>)

\* The filter values with the binding k set to the token.
WithToken(h, k, token) == (k :> token) @@ h

\* The tokens an each node fans out over: the value of its field, cut at
\* the separator (a single space unless the node names one).
TokensOf(node, h) ==
  split(h[node.value], IF node.separator = << >> THEN " " ELSE node.separator[1])

\* What a node stands for under h, fan-out included: << >> when it yields
\* nothing, else the one node it resolves to.  An each node resolves its
\* nested template once per token, in token order, and joins the instances
\* with its linkType under the collapse rule.
RECURSIVE FannedOut(_, _)
RECURSIVE Instances(_, _, _)
RECURSIVE InstancesOfTokens(_, _, _, _)
Instances(args, i, h) ==
  IF i > Len(args) THEN << >>
  ELSE FannedOut(args[i], h) \o Instances(args, i + 1, h)
InstancesOfTokens(node, tokens, i, h) ==
  IF i > Len(tokens) THEN << >>
  ELSE Instances(node.args, 1, WithToken(h, BindingOf(node), tokens[i]))
         \o InstancesOfTokens(node, tokens, i + 1, h)
FannedOut(node, h) ==
  IF ~GuardsPass(node, h) THEN << >>
  ELSE IF node.form = "node"
  THEN LET fanOut == node.type = "each"
           hasValue == node.value \in DOMAIN h /\ h[node.value] # << >>
           instances == IF ~fanOut THEN Instances(node.args, 1, h)
                        ELSE IF ~hasValue THEN << >>
                        ELSE InstancesOfTokens(node, TokensOf(node, h), 1, h)
           joined == IF ~fanOut THEN node.type
                     ELSE IF node.linkType = "" THEN "and" ELSE node.linkType
       IN IF Len(instances) = 0 THEN << >>
          ELSE IF Len(instances) = 1 THEN instances
          ELSE <<[node EXCEPT !.type = joined, !.args = instances]>>
  ELSE IF LeafHasValues(node, h) THEN <<SubstitutedLeaf(node, h)>>
  ELSE << >>

\* {type:'startsWith', args:['name', token]}
StartsWith(token) == Leaf("startsWith", name, token)

\* C21: an each node over a field whose value splits into n tokens resolves
\* its nested template once per token, in token order, with its binding
\* (`as`, or the field name followed by Each) set to that token, and joins
\* the instances with linkType (and unless given) under the collapse rule:
\* "a b c" yields three instances joined by and, a value of one token the
\* single instance with no logical operator, a field with no value nothing.
C21_EachFanOut ==
  (/\ outcome.state = "returned"
   /\ ~NoEach(request.queryConditions)
   /\ WellScoped(request.queryConditions, request.allowedFields)
   /\ GuardsOnFilter(request.queryConditions, Bindings(request.queryConditions))) =>
    LET h == request.conditionsHash
        expected == FannedOut(request.queryConditions, h)
    IN /\ outcome.doc = IF expected = << >> THEN EmptyCondition ELSE expected[1]
       /\ request.queryConditions = Each(name, <<EachLeaf>>) =>
            outcome.doc =
              IF name \notin DOMAIN h THEN EmptyCondition
              ELSE IF h[name] = <<"a", " ", "b", " ", "c">>
              THEN [Each(name, << >>) EXCEPT
                      !.type = "and",
                      !.args = <<StartsWith(Word("a")), StartsWith(Word("b")),
                                 StartsWith(Word("c"))>>]
              ELSE StartsWith(h[name])

\* C21 witness: an each node with two nested leaves, joined by or, over a
\* value of three tokens gave the six instances in token order.
C21_Witness ==
  /\ Len(trace) = 1
  /\ trace[1].req.queryConditions =
       [Each(name, <<EachLeaf, SurnameLeaf>>) EXCEPT !.linkType = "or"]
  /\ DOMAIN request.conditionsHash = {surname, name}
  /\ request.conditionsHash[name] = <<"a", " ", "b", " ", "c">>
  /\ request.conditionsHash[surname] = Word("Mobily")
  /\ outcome.state = "returned"
  /\ outcome.doc.type = "or"
  /\ outcome.doc.args =
       <<StartsWith(Word("a")), LiteralLeaf, StartsWith(Word("b")), LiteralLeaf,
         StartsWith(Word("c")), LiteralLeaf>>

\* The guards of the node are satisfied by the filter values h: every field
\* of ifDefined has a value, no field of ifNotDefined has one, and the
\* predicate, if there is one, did not return false.
GuardSatisfied(node, h) ==
  /\ \A k \in (IF node.ifDefined = << >> THEN {}
                ELSE Range(split(node.ifDefined, ","))) : k \in DOMAIN h
  /\ \A k \in (IF node.ifNotDefined = << >> THEN {}
                ELSE Range(split(node.ifNotDefined, ","))) : k \notin DOMAIN h
  /\ node.if # "false"

HasGuards(node) ==
  node.ifDefined # << >> \/ node.ifNotDefined # << >> \/ node.if # "none"

\* The node without its own guards.
Unguarded(node) ==
  [node EXCEPT !.ifDefined = << >>, !.ifNotDefined = << >>, !.if = "none"]

\* The tree without any guard, at any depth.
RECURSIVE Shape(_)
Shape(node) ==
  [Unguarded(node) EXCEPT !.args = [i \in DOMAIN node.args |-> Shape(node.args[i])]]

\* The template with no guards left: the nodes whose guards h does not
\* satisfy are taken out with all they contain (<< >> when that is the
\* root), the others lose their guards.
RECURSIVE GuardsApplied(_, _)
RECURSIVE GuardsAppliedToArgs(_, _, _)
GuardsAppliedToArgs(args, i, h) ==
  IF i > Len(args) THEN << >>
  ELSE GuardsApplied(args[i], h) \o GuardsAppliedToArgs(args, i + 1, h)
GuardsApplied(node, h) ==
  IF ~GuardSatisfied(node, h) THEN << >>
  ELSE <<[Unguarded(node) EXCEPT !.args = GuardsAppliedToArgs(node.args, 1, h)]>>

RECURSIVE SomeGuard(_)
SomeGuard(node) ==
  HasGuards(node) \/ \E i \in DOMAIN node.args : SomeGuard(node.args[i])

\* C22: a leaf, an and / or node or an each node is dropped, without its
\* contents being processed, when its ifDefined names a field with no
\* filter value, when its ifNotDefined names a field that has one, or when
\* its predicate returns false; a node whose guards are satisfied is
\* processed as the same node with no guards: resolving the template gives
\* what resolving it with the failing nodes taken out and the other guards
\* removed gives, the guard keys a kept node carries along apart.
C22_Guards ==
  LET T == request.queryConditions
      h == request.conditionsHash
  IN (/\ outcome.state # "none"
      /\ SomeGuard(T)
      /\ GuardsOnFilter(T, Bindings(T))) =>
       LET applied == GuardsApplied(T, h)
           plain == Resolved(applied[1], h, request.allowedFields)
       IN IF applied = << >>
          THEN outcome.state = "returned" /\ outcome.doc = EmptyCondition
          ELSE IF plain.f = ""
          THEN outcome.state = "returned" /\ Shape(outcome.doc) = Shape(plain.res)
          ELSE outcome.state = "failed"

\* C22 witness: the node whose ifNotDefined field has a value is gone with
\* its two leaves, and the leaf whose two ifDefined fields have values is
\* emitted as the leaf without guards.
C22_Witness ==
  /\ Len(trace) = 1
  /\ trace[1].req.queryConditions =
       Composite("or",
         <<[Composite("and", <<LiteralLeaf, NullLeaf>>) EXCEPT !.ifNotDefined = name],
           GuardedLeaf>>)
  /\ DOMAIN request.conditionsHash = {surname, name}
  /\ outcome.state = "returned"
  /\ outcome.doc = LiteralLeaf

\* The node is a leaf with one value argument, a reference to a field that
\* is not allowed.
RefersToUnknownField(node, fields) ==
  /\ node.form = "scalar"
  /\ MatchesReference(node.arg1[1])
  /\ ReferencedField(node.arg1[1]) \notin fields

\* C23: resolving a template with a leaf whose reference #x# names a field
\* that is not in allowedFields, the leaf not being inside an each node,
\* fails with the configuration error; a leaf whose allowed field merely
\* has no value is dropped and the call returns.  Stated for the leaves
\* that are reached: the root and the children of an and / or root, their
\* guards satisfied.
C23_ConfigurationError ==
  LET T == request.queryConditions
      h == request.conditionsHash
      fields == request.allowedFields
      reached == IF T.type \in {"and", "or"}
                 THEN {T.args[i] : i \in DOMAIN T.args} ELSE {T}
  IN (outcome.state # "none" /\ GuardSatisfied(T, h)) =>
       /\ (\E leaf \in reached :
             GuardSatisfied(leaf, h) /\ RefersToUnknownField(leaf, fields))
            => outcome.state = "failed" /\ outcome.kind = "Error"
       /\ (T = SurnameLeaf /\ surname \in fields /\ surname \notin DOMAIN h)
            => outcome.state = "returned" /\ outcome.doc = EmptyCondition

\* The root is an and / or of an each node followed by a node without one.
EachThenSibling(T) ==
  /\ T.type \in {"and", "or"}
  /\ Len(T.args) = 2
  /\ T.args[1].type = "each"
  /\ NoEach(T.args[2])

\* C24: the binding an each node injects, and its allowed-field entry, are
\* seen only while the nested template of that node is resolved: a sibling
\* that follows the each node resolves as it does in the template without
\* the each node, to the same leaves or to the same failure.
C24_EachScoping ==
  LET T == request.queryConditions
      h == request.conditionsHash
      fields == request.allowedFields
  IN (outcome.state # "none" /\ EachThenSibling(T)) =>
       LET alone == Resolved(T.args[1], h, fields)
           without == Resolved(Composite(T.type, <<T.args[2]>>), h, fields)
       IN alone.f = "" =>
            IF without.f = ""
            THEN /\ outcome.state = "returned"
                 /\ LeavesOf(outcome.doc)
                      = LeavesOf(alone.res) \o LeavesOf(without.res)
            ELSE outcome.state = "failed"

C26_Idempotence ==
  Len(trace) = 2 =>
    /\ outcome.state = "returned"
    /\ outcome.doc = trace[1].result

----------------------------------------------------------------------------
\* Properties of the repositioning engine (Spec).

\* The request the engine was called on, and the `existing` it was given.
EngineRequest == RequestAt("_repositionBasedOnOptions")
EngineExisting == method = "put" /\ EngineRequest.putExisting = "true"

\* C27: the engine calls the reposition operation at most once: not at all
\* when positioning is disabled; else ('before', putBefore) when putBefore
\* is set, whatever the rest; else (putDefaultPosition, null) when that is
\* set; else ('end', null) for a new record; else, for an existing record
\* with no directive, not at all.
C27_DecisionTable ==
  method \in {"post", "put"} =>
    /\ Len(repositionCalls) <= 1
    /\ ~Invoked("_repositionBasedOnOptions") => repositionCalls = << >>
    /\ Invoked("_repositionBasedOnOptions") =>
         LET o == EngineRequest.options
             record == EngineRequest.doc
         IN CASE ~store.positioning -> repositionCalls = << >>
              [] store.positioning /\ o.putBefore # 0 ->
                   repositionCalls =
                     <<[doc |-> record, where |-> "before", beforeId |-> o.putBefore]>>
              [] store.positioning /\ o.putBefore = 0 /\ o.putDefaultPosition # "" ->
                   repositionCalls =
                     <<[doc |-> record, where |-> o.putDefaultPosition, beforeId |-> 0]>>
              [] store.positioning /\ o.putBefore = 0 /\ o.putDefaultPosition = ""
                   /\ ~EngineExisting ->
                   repositionCalls = <<[doc |-> record, where |-> "end", beforeId |-> 0]>>
              [] OTHER -> repositionCalls = << >>

\* C27 witness: on a positioning store a put with both directives placed
\* the existing record before putBefore, in one call.
C27_Witness ==
  /\ method = "put"
  /\ store.positioning
  /\ Invoked("_repositionBasedOnOptions")
  /\ EngineExisting
  /\ EngineRequest.options.putBefore # 0
  /\ EngineRequest.options.putDefaultPosition = "start"
  /\ Len(repositionCalls) = 1
  /\ repositionCalls[1].where = "before"
  /\ outcome.state = "returned"

\* The calls of the run before its i-th one.
CalledBefore(i) == {trace[j].call : j \in 1 .. (i - 1)}

\* The run failed though none of its stages did and its handle-flag gate
\* was open: the pipeline itself turned the request down before doing
\* anything.
TurnedDownAtEntry ==
  /\ outcome.state = "failed"
  /\ outcome.kind # "NotImplementedError"
  /\ trace = << >>

\* C28: the engine is invoked only after the insert / update operation has
\* completed and before the last hook; with existing = false in a create
\* run, and existing = what the probe found in an update-or-create run; so
\* a put with putBefore = X on a positioning store is not turned down, and
\* when it returns it has placed the record before X, new or not.
C28_RepositionAfterWrite ==
  method \in {"post", "put"} =>
    /\ \A i \in DOMAIN trace :
         trace[i].call = "_repositionBasedOnOptions" =>
           /\ CalledBefore(i) \cap {"implementInsert", "implementUpdate"} # {}
           /\ CalledBefore(i) \cap {"beforeReturn", "afterEverything"} = {}
           /\ (method = "post" \/ ProbeAbsent) =>
                \A j \in 1 .. (i - 1) : trace[j].call # "implementUpdate"
    /\ (store.positioning /\ request.options.putBefore = 0
          /\ request.options.putDefaultPosition = ""
          /\ Invoked("_repositionBasedOnOptions")) =>
         repositionCalls # << >> <=> (method = "post" \/ ProbeAbsent)
    /\ (method = "put" /\ store.positioning /\ request.options.putBefore # 0) =>
         /\ ~TurnedDownAtEntry
         /\ outcome.state = "returned" =>
              /\ Len(repositionCalls) = 1
              /\ repositionCalls[1].where = "before"
              /\ repositionCalls[1].beforeId = request.options.putBefore

----------------------------------------------------------------------------
(***************************************************************************)
(* _sendError (src/JsonRestStores-BEFORE.js 641-680): what the older Store *)
(* class does with a failure of a pipeline.  request.error is the failure  *)
(* handed over; a thrown error ends the call (outcome failed, outcome.doc  *)
(* the error thrown); sendData and logError are recorded in the history    *)
(* with the error they were given.                                         *)
(***************************************************************************)

\* The error kinds of allhttperrors (`e`) the pipelines throw.
HttpErrorNames ==
  {"BadRequestError", "ForbiddenError", "NotFoundError",
   "PreconditionFailedError", "UnprocessableEntityError",
   "NotImplementedError", "ServiceUnavailableError"}
\* Kinds of failure a collaborator may reject with.
OtherErrorNames == {"Error", "TypeError"}

\* No error: the originalErr of an error that wraps nothing.
NoError ==
  [name |-> "", message |-> 0, originalErr |-> "", originalMessage |-> 0,
   formattedErrorResponse |-> [t |-> "undefined", message |-> 0],
   originalMethod |-> ""]
ErrorOf(kind, message) == [NoError EXCEPT !.name = kind, !.message = message]

\* typeof (e[ error.name ]) === 'undefined'
NotHttp(error) == error.name \notin HttpErrorNames

\* new self.ServiceUnavailableError({ originalErr: error })
ServiceUnavailable(error) ==
  [NoError EXCEPT !.name = "ServiceUnavailableError",
                  !.originalErr = error.name, !.originalMessage = error.message]

\* Mutant of Chained: nonhttp hands every failure upstream.
ChainedWheneverNotNone(remote, chainErrors, error) ==
  ~remote \/ chainErrors \in {"all", "nonhttp"}

\* _sendError throws the error it was given: a local call, chainErrors
\* 'all', or 'nonhttp' with an error that is not an HTTP error.
Chained(remote, chainErrors, error) ==
  \/ ~remote
  \/ chainErrors = "all"
  \/ chainErrors = "nonhttp" /\ NotHttp(error)

\* self.formatErrorResponse(error): { message: error.message }; the errors
\* array of an error is not modelled.
formatErrorResponse(error) == [t |-> "object", message |-> error.message]

\* Mutant of Transmitted: a non-HTTP error is sent as it is.
TransmittedUnwrapped(error, m) ==
  [error EXCEPT !.formattedErrorResponse = formatErrorResponse(error),
                !.originalMethod = m]

\* The error _sendError formats and sends: the error itself, or the
\* ServiceUnavailableError it wraps a non-HTTP error in, with the two
\* properties it sets.
Transmitted(error, m) ==
  LET httpError == IF NotHttp(error) THEN ServiceUnavailable(error) ELSE error
  IN [httpError EXCEPT !.formattedErrorResponse = formatErrorResponse(httpError),
                       !.originalMethod = m]

\* The lines of each pipeline that call self._sendError.  _makePost calls
\* it from its catch clause; the other pipelines call it from their
\* continuations as (request, method, next, err), the argument list of the
\* _sendError that took the continuation: the failure they hand over is err.
SendErrorSites(verb) ==
  CASE verb = "post" -> {934}
    [] verb = "put" ->
         {1058, 1060, 1063, 1074, 1079, 1082, 1085, 1090, 1095, 1123, 1125,
          1128, 1134, 1136, 1139, 1154, 1157, 1162, 1165, 1168, 1173, 1178}
    [] verb = "getQuery" ->
         {1227, 1233, 1236, 1239, 1241, 1244, 1247, 1250, 1256, 1274, 1277,
          1285, 1288, 1294}
    [] verb = "get" ->
         {1326, 1331, 1334, 1338, 1340, 1345, 1348, 1354, 1356, 1359, 1363, 1372}
    [] verb = "delete" ->
         {1412, 1417, 1420, 1424, 1426, 1431, 1437, 1439, 1442, 1446, 1450,
          1453, 1456, 1461}

\* The second argument of the call at that line of the pipeline of verb.
MethodPassedAt(line, verb) ==
  IF line \in {1123, 1125, 1236, 1334, 1420} THEN "post" ELSE verb

\* A pipeline of verb `method` failed with request.error at the line
\* request.site.
SendErrorInit ==
  /\ store \in [chainErrors : {"all", "none", "nonhttp"}]
  /\ method \in Verbs
  /\ \E remote \in BOOLEAN, kind \in HttpErrorNames \cup OtherErrorNames,
        message \in Messages, site \in SendErrorSites(method) :
       request = [remote |-> remote, site |-> site,
                  error |-> ErrorOf(kind, message)]
  /\ pc = 0
  /\ trace = << >>
  /\ repositionCalls = << >>
  /\ outcome = NoOutcome

\* self._sendError(request, <method of the call site>, error)
_sendError ==
  /\ pc = 0
  /\ pc' = 1
  /\ LET error == request.error
     IN IF Chained(request.remote, store.chainErrors, error)
        THEN /\ outcome' = [NoOutcome EXCEPT
                              !.state = "failed", !.kind = error.name,
                              !.message = error.message, !.doc = error]
             /\ UNCHANGED <<request, trace>>
        ELSE LET sent == Transmitted(error, MethodPassedAt(request.site, method))
             IN /\ \* the two properties are set on a recognized error itself
                   request' = [request EXCEPT
                                 !.error = IF NotHttp(error) THEN error ELSE sent]
                /\ trace' = trace \o
                     <<[call |-> "sendData", method |-> "error",
                        req |-> request, result |-> sent],
                       [call |-> "logError", method |-> "",
                        req |-> request, result |-> sent]>>
                /\ outcome' = [NoOutcome EXCEPT !.state = "returned"]
  /\ UNCHANGED <<store, method, repositionCalls>>

SendErrorNext == _sendError

SpecSendError == SendErrorInit /\ [][SendErrorNext]_vars

\* Properties of the error policy (SpecSendError).

\* The failure was handed back to the caller / upstream.
Reraised == outcome.state = "failed"
\* The failure was formatted and sent.
Sent == Invoked("sendData")

C30_AlwaysLogged ==
  pc = 1 => Invoked("logError")

\* The error handed to sendData, and the failure _sendError was given.
SentError == trace[1].result
GivenError == trace[1].req.error

\* C31: every error handed to the send operation is of an HTTP kind: a
\* failure of no recognized kind is replaced by a ServiceUnavailableError
\* that keeps the failure as originalErr, a recognized failure is sent as
\* the same error; either way the error sent carries the
\* formattedErrorResponse that formatErrorResponse made of it.
C31_TransmittedIsHttp ==
  Sent =>
    /\ SentError.name \in HttpErrorNames
    /\ GivenError.name \notin HttpErrorNames =>
         /\ SentError.name = "ServiceUnavailableError"
         /\ SentError.originalErr = GivenError.name
         /\ SentError.originalMessage = GivenError.message
         \* the failure itself is left as it was
         /\ request.error = GivenError
    /\ GivenError.name \in HttpErrorNames =>
         /\ SentError.name = GivenError.name
         /\ SentError.message = GivenError.message
         /\ SentError.originalErr = ""
         \* it is the same object: the caller's error got the properties
         /\ request.error = SentError
    /\ SentError.formattedErrorResponse = [t |-> "object", message |-> SentError.message]

\* C31 witness: under chainErrors none a TypeError of a remote run was
\* sent as a ServiceUnavailableError keeping it.
C31_Witness ==
  /\ Sent
  /\ store.chainErrors = "none"
  /\ GivenError.name = "TypeError"
  /\ SentError.name = "ServiceUnavailableError"
  /\ SentError.originalErr = "TypeError"
  /\ SentError.formattedErrorResponse.t = "object"

\* C32: when a stage of a pipeline fails, the error policy is given the
\* verb of that pipeline: the originalMethod of an error that is sent is
\* the verb that was executing.
C32_VerbHandedOver ==
  Sent => SentError.originalMethod = method


\* ---------------------------------------------------------------------
\* The store registry and the constructor of src/jsonreststores.js
\* (lines 24, 70-76, 160-249).  In this specification
\*   store    holds the registry, the count of instances created so far
\*            and the instance the last construction worked on (self),
\*   request  is the class handed to the last operation,
\*   trace    is the log of operations: name, instance id, result,
\*   pc       counts the operations.
\* ---------------------------------------------------------------------

\* Number of registry operations in one run.
MaxOperations == 3

StoreNames == {"users", "roles"}
\* static get storeName () { return null }
NoName == "null"

\* publicURL as a sequence of atoms; static get publicURL () { return null }
NoURL == <<"null">>
PublicURLs ==
  {NoURL, <<"/", "users">>,
   <<"/", "workspaces", "/", ":", "workspaceId", "/", "users", "/", ":", "id">>}

\* schema.structure as a function from field names to types.
NoSchema == [t |-> "null", structure |-> << >>]
Schema(structure) == [t |-> "schema", structure |-> structure]
Schemas ==
  {NoSchema, Schema("name" :> "string"),
   Schema("id" :> "number" @@ "name" :> "string")}

\* The static values of a class extending Store.
Classes ==
  [storeName : StoreNames \cup {NoName}, schema : Schemas,
   paramIds : {<< >>, <<"workspaceId", "id">>}, publicURL : PublicURLs,
   idProperty : {"", "code"}]

NoClass ==
  [storeName |-> NoName, schema |-> NoSchema, paramIds |-> << >>,
   publicURL |-> NoURL, idProperty |-> ""]

\* var registry = {}
EmptyRegistry == [n \in StoreNames |-> 0]

\* (s).match(/:.*?\/+/g): the matches, left to right; each runs from a ':'
\* to the first run of '/' after it.
RECURSIVE SlashesFrom(_, _)
SlashesFrom(s, i) ==
  IF i <= Len(s) /\ s[i] = "/" THEN SlashesFrom(s, i + 1) ELSE i

RECURSIVE match(_, _)
match(s, i) ==
  IF i > Len(s) THEN << >>
  ELSE IF s[i] # ":" THEN match(s, i + 1)
  ELSE LET slashes == {j \in (i + 1) .. Len(s) : s[j] = "/"}
       IN  IF slashes = {} THEN << >>
           ELSE LET first == CHOOSE j \in slashes : \A k \in slashes : j <= k
                    after == SlashesFrom(s, first)
                IN  <<SubSeq(s, i, after - 1)>> \o match(s, after)

\* i.substr(1, i.length - 2) of a match ':name/': the name.
substr(i) ==
  LET cut == SubSeq(i, 2, Len(i) - 1)
  IN  IF cut = << >> THEN "" ELSE cut[1]

\* this.paramIds[ this.paramIds.length - 1 ]
LastParamId(ids) == ids[Len(ids)]

NameTakenNever(reg, storeName) == FALSE

\* typeof (registry[ self.storeName ]) !== 'undefined'
NameTaken(reg, storeName) == reg[storeName] # 0

AddNoParamIds(structure, ids) == structure

\* The loop of lines 223-228: paramIds missing from the structure are
\* added as { type: 'id' }; those declared keep their declaration.
AddParamIds(structure, ids) ==
  [k \in DOMAIN structure \cup Range(ids) |->
     IF k \in DOMAIN structure THEN structure[k] ELSE "id"]

Instance(class) ==
  [storeName |-> class.storeName, paramIds |-> class.paramIds,
   idProperty |-> class.idProperty, structure |-> class.schema.structure]

NoInstance == Instance(NoClass)

Failure(kind, self) == [t |-> "throw", kind |-> kind, self |-> self]

\* The constructor up to its last statement: what it throws, or the
\* instance it is about to register.
Constructing(reg, class) ==
  LET copied == Instance(class)
      derives == class.paramIds = << >> /\ class.publicURL # NoURL
      matches == match(class.publicURL \o <<"/">>, 1)
      ids == IF derives
               THEN [i \in DOMAIN matches |-> substr(matches[i])]
               ELSE class.paramIds
      withIds == [copied EXCEPT !.paramIds = ids]
      withId == IF class.idProperty = ""
                  THEN [withIds EXCEPT !.idProperty = LastParamId(ids)]
                  ELSE withIds
  IN  IF class.storeName = NoName THEN Failure("Error", copied)
      ELSE IF NameTaken(reg, class.storeName) THEN Failure("Error", copied)
      ELSE IF class.schema = NoSchema THEN Failure("Error", copied)
      \* match returns null when nothing matches: null.map
      ELSE IF derives /\ matches = << >> THEN Failure("TypeError", copied)
      ELSE IF class.idProperty = "" /\ ids = << >>
        THEN Failure("Error", withIds)
      ELSE [t |-> "ok", kind |-> "",
            self |-> [withId EXCEPT
                        !.structure = AddParamIds(withId.structure, ids)]]

Operation(op, storeName, id, result) ==
  [call |-> op, method |-> storeName, req |-> id, result |-> result]

RegistryOutcome(state, kind, id) ==
  [state |-> state, kind |-> kind, doc |-> id]

RegistryInit ==
  /\ store = [registry |-> EmptyRegistry, created |-> 0, self |-> NoInstance]
  /\ method = ""
  /\ request = NoClass
  /\ pc = 0
  /\ trace = << >>
  /\ repositionCalls = << >>
  /\ outcome = RegistryOutcome("none", "", 0)

\* new Class(): Self.registry[ self.storeName ] = self is the last
\* statement, reached only when nothing threw.
constructor ==
  /\ pc < MaxOperations
  /\ \E class \in Classes :
       LET made == Constructing(store.registry, class)
           id == store.created + 1
       IN  /\ request' = class
           /\ store' =
                [registry |-> IF made.t = "ok"
                                THEN [store.registry EXCEPT ![class.storeName] = id]
                                ELSE store.registry,
                 created |-> id, self |-> made.self]
           /\ trace' = Append(trace,
                         Operation("constructor", class.storeName, id, made.t))
           /\ outcome' = IF made.t = "ok"
                           THEN RegistryOutcome("returned", "", id)
                           ELSE RegistryOutcome("failed", made.kind, 0)
  /\ method' = "constructor"
  /\ pc' = pc + 1
  /\ UNCHANGED repositionCalls

\* static deleteStore (storeName) { delete registry[ storeName ] }
deleteStore ==
  /\ pc < MaxOperations
  /\ \E storeName \in StoreNames :
       /\ request' = [NoClass EXCEPT !.storeName = storeName]
       /\ store' = [store EXCEPT !.registry[storeName] = 0]
       /\ trace' = Append(trace, Operation("deleteStore", storeName, 0, "ok"))
  /\ outcome' = RegistryOutcome("returned", "", 0)
  /\ method' = "deleteStore"
  /\ pc' = pc + 1
  /\ UNCHANGED repositionCalls

\* static getStore (storeName) { return registry[ storeName ] }
getStore ==
  /\ pc < MaxOperations
  /\ \E storeName \in StoreNames :
       /\ request' = [NoClass EXCEPT !.storeName = storeName]
       /\ trace' = Append(trace,
                     Operation("getStore", storeName,
                               store.registry[storeName], "ok"))
       /\ outcome' = RegistryOutcome("returned", "", store.registry[storeName])
  /\ method' = "getStore"
  /\ pc' = pc + 1
  /\ UNCHANGED <<store, repositionCalls>>

RegistryNext == constructor \/ deleteStore \/ getStore

SpecRegistry == RegistryInit /\ [][RegistryNext]_vars

\* ---- properties of the registry ----

\* The live instance under a name after a log of operations: the last
\* instance whose construction under that name succeeded, unless a
\* deleteStore of the name came after it; 0 if there is none.
RECURSIVE Live(_, _)
Live(log, storeName) ==
  IF log = << >> THEN 0
  ELSE LET last == log[Len(log)]
           before == SubSeq(log, 1, Len(log) - 1)
       IN  IF last.method # storeName THEN Live(before, storeName)
           ELSE IF last.call = "constructor" /\ last.result = "ok" THEN last.req
           ELSE IF last.call = "deleteStore" THEN 0
           ELSE Live(before, storeName)

LogBefore(i) == SubSeq(trace, 1, i - 1)

C38_ParamIds ==
  method = "constructor" =>
    /\ outcome.state = "returned" =>
         LET self == store.self
             declared == request.schema.structure
         IN  /\ Range(self.paramIds) \subseteq DOMAIN self.structure
             /\ DOMAIN self.structure = DOMAIN declared \cup Range(self.paramIds)
             /\ \A k \in DOMAIN self.structure :
                  self.structure[k] = IF k \in DOMAIN declared
                                        THEN declared[k] ELSE "id"
             /\ request.idProperty = ""
                  => self.idProperty = self.paramIds[Len(self.paramIds)]
             /\ request.idProperty # "" => self.idProperty = request.idProperty
    /\ (request.idProperty = "" /\ store.self.paramIds = << >>)
         => outcome.state = "failed"

\* C38 witness: a class with only a publicURL and a schema declaring name
\* was constructed; workspaceId and id were added and id is the idProperty.
C38_Witness ==
  /\ method = "constructor"
  /\ outcome.state = "returned"
  /\ request.paramIds = << >>
  /\ request.idProperty = ""
  /\ request.schema = Schema("name" :> "string")
  /\ store.self.paramIds = <<"workspaceId", "id">>
  /\ store.self.idProperty = "id"
  /\ store.self.structure =
       ("workspaceId" :> "id" @@ "id" :> "id" @@ "name" :> "string")


\* ---------------------------------------------------------------------
\* The api* functions of src/jsonreststores.js (563-644) in front of the
\* pipelines of Spec.  store.delivered is what the api* call gave to its
\* caller: nothing yet, a returned value, or an exception.
\* ---------------------------------------------------------------------

Undefined == [t |-> "undefined", id |-> 0, ids |-> {}]

Pending == [state |-> "pending", kind |-> "", doc |-> Null]
\* The function body ends without a return statement.
ReturnsUndefined == [state |-> "returned", kind |-> "", doc |-> Undefined]
ThrowsToCaller(kind) == [state |-> "failed", kind |-> kind, doc |-> Null]

ApiInit ==
  /\ store \in [handlePost : BOOLEAN, handlePut : BOOLEAN, handleGet : BOOLEAN,
                handleGetQuery : BOOLEAN, handleDelete : BOOLEAN,
                positioning : BOOLEAN, delivered : {Pending}]
  /\ method = ""
  /\ request = NoRequest
  /\ pc = 0
  /\ trace = <<>>
  /\ repositionCalls = <<>>
  /\ outcome = NoOutcome

\* The api* function makes up the request, calls this._makeXxx(request)
\* without awaiting or returning its promise, and ends.
ApiRuns(m, params, body, options) ==
  /\ method' = m
  /\ request' = [NoRequest EXCEPT !.remote = FALSE, !.params = params,
                                  !.body = body, !.options = options]
  /\ pc' = EntryLine(m)
  /\ store' = [store EXCEPT !.delivered = ReturnsUndefined]
  /\ UNCHANGED <<trace, repositionCalls, outcome>>

ApiIdle == pc = 0 /\ outcome.state = "none" /\ store.delivered = Pending

\* params is options.apiParams when given, else { [idProperty]: id }.
ApiParams == SUBSET Range(paramIds)

apiGetQuery ==
  /\ ApiIdle
  /\ \E params \in ApiParams : ApiRuns("getQuery", params, {}, NoRequest.options)

apiGet ==
  /\ ApiIdle
  /\ \E params \in ApiParams : ApiRuns("get", params, {}, NoRequest.options)

apiPut ==
  /\ ApiIdle
  /\ \E params \in ApiParams, body \in {{}, {idProperty, "name"}},
        putBefore \in {0} \cup Docs, putDefaultPosition \in {"", "start", "end"},
        overwrite \in {"undefined", "true", "false"} :
       /\ overwrite # "undefined" => putBefore = 0 /\ putDefaultPosition = ""
       /\ IF idProperty \notin body
            \* typeof (body[ this.idProperty ]) === 'undefined': throw
            THEN /\ store' = [store EXCEPT !.delivered = ThrowsToCaller("Error")]
                 /\ method' = "put"
                 /\ UNCHANGED <<request, pc, trace, repositionCalls, outcome>>
            ELSE ApiRuns("put", params, body,
                         [NoRequest.options EXCEPT
                            !.putBefore = putBefore,
                            !.putDefaultPosition = putDefaultPosition,
                            !.overwrite = overwrite])

apiPost ==
  /\ ApiIdle
  /\ \E params \in ApiParams, body \in {{}, {idProperty, "name"}},
        putBefore \in {0} \cup Docs, putDefaultPosition \in {"", "start", "end"} :
       ApiRuns("post", params, body,
               [NoRequest.options EXCEPT
                  !.putBefore = putBefore,
                  !.putDefaultPosition = putDefaultPosition])

\* request.remote is left undefined here, which the pipelines read as false.
apiDelete ==
  /\ ApiIdle
  /\ \E params \in ApiParams : ApiRuns("delete", params, {}, NoRequest.options)

ApiNext ==
  \/ apiGetQuery
  \/ apiGet
  \/ apiPut
  \/ apiPost
  \/ apiDelete
  \/ _makePost
  \/ _makePut
  \/ _makeGet
  \/ _makeGetQuery
  \/ _makeDelete

SpecApi == ApiInit /\ [][ApiNext]_vars

\* ---- properties of the api* functions ----

\* C34: a direct API call runs its pipeline with remote = false and gives
\* the pipeline's outcome to its caller: the document (or list) when the
\* pipeline returned, the pipeline's failure when it failed.
C34_ApiDelivers ==
  /\ Running => ~request.remote
  /\ outcome.state = "returned" =>
       store.delivered.state = "returned" /\ store.delivered.doc = outcome.doc
  /\ outcome.state = "failed" =>
       store.delivered.state = "failed" /\ store.delivered.kind = outcome.kind


\* ---- further properties of the pipelines of Spec ----

\* The filter values the caller of the run supplied.
CallerConditions == trace[1].req.options.conditionsHash

\* C35: in a fetch-query run the filter values the caller supplied are
\* the ones validated; a validation that ends the run ends it with
\* BadRequest (or with the validator's own failure) and before the query
\* operation; and the query operation receives the caller's validated
\* filter values as its condition values.
C35_FilterValidated ==
  method = "getQuery" =>
    /\ \A i \in DOMAIN trace :
         trace[i].call = "implementQuery" =>
           trace[i].req.options.conditionsHash = CallerConditions
    /\ (outcome.state = "failed" /\ trace # << >>
          /\ trace[Len(trace)].call = "schema.validate") =>
         /\ outcome.kind \in {"BadRequestError", "Error"}
         /\ ~Invoked("implementQuery")


\* Position in the call history of the only call of that name (0 if the
\* name was not called exactly once).
OnlyCall(stage) ==
  IF Times(stage) = 1 THEN CHOOSE i \in DOMAIN trace : trace[i].call = stage
  ELSE 0

\* C36: a run that returned called beforeCheckParamIds once, then the id
\* check, then afterCheckParamIds once, and only then any later stage.
C36_IdHooksOnce ==
  outcome.state = "returned" =>
    /\ Times("beforeCheckParamIds") = 1
    /\ Times("_checkParamIds") = 1
    /\ Times("afterCheckParamIds") = 1
    /\ OnlyCall("beforeCheckParamIds") = 1
    /\ OnlyCall("_checkParamIds") = 2
    /\ OnlyCall("afterCheckParamIds") = 3


\* ---------------------------------------------------------------------
\* Two create requests running concurrently through _makePost of
\* src/JsonRestStores-BEFORE.js, from the uniqueness check (896) on.  Each
\* `await` yields, so the steps of the two runs interleave freely.  Here
\*   store    holds the records of the persistence layer,
\*   request  the value each request carries for the unique field and the
\*            errors its uniqueness check collected,
\*   pc       the line each run is at (0: not running),
\*   outcome  how each run ended,
\*   trace    the calls made, each with the request that made it.
\* The stages before 896 and after 910 do not read or write the records;
\* they are folded into the arrival and into one closing step.
\* ---------------------------------------------------------------------

Requests == {1, 2}
\* Values of the unique field (schema: email, unique: true).
Emails == {"a@x", "b@x"}

Record(id, email) == [id |-> id, email |-> email]

InsertUnlessTaken(records, doc) ==
  IF \E rec \in records : rec.email = doc.email THEN records ELSE records \cup {doc}

\* The persistence layer stores the document it is given.
Insert(records, doc) == records \cup {doc}

\* `var records = await self.dbLayer.select(conditions)`, `records.total`
\* for conditions { type: 'eq', args: [ field, value ] } (id is null).
Total(records, email) == Cardinality({rec \in records : rec.email = email})

NotRunning == [state |-> "none", kind |-> ""]
Ended(state, kind) == [state |-> state, kind |-> kind]

By(stage, r, result) ==
  [call |-> stage, method |-> "post", req |-> r, result |-> result]

ConcurrentInit ==
  /\ store = [records |-> {}]
  /\ method = "post"
  /\ request = [r \in Requests |-> [email |-> "", errors |-> {}]]
  /\ pc = [r \in Requests |-> 0]
  /\ trace = << >>
  /\ repositionCalls = << >>
  /\ outcome = [r \in Requests |-> NotRunning]

Goes(r, next) == pc' = [pc EXCEPT ![r] = next] /\ UNCHANGED outcome

Fails(r, kind) ==
  /\ pc' = [pc EXCEPT ![r] = 0]
  /\ outcome' = [outcome EXCEPT ![r] = Ended("failed", kind)]

\* A create request arrives and runs up to the uniqueness check.
Arrive(r) ==
  /\ pc[r] = 0
  /\ outcome[r] = NotRunning
  /\ \E email \in Emails :
       request' = [request EXCEPT ![r] = [email |-> email, errors |-> {}]]
  /\ Goes(r, 896)
  /\ UNCHANGED <<store, method, trace, repositionCalls>>

\* 896-897: _areFieldsUnique(null, request.body), one select per unique
\* field; the run goes on when un.allUnique is true.
CheckUnique(r) ==
  /\ pc[r] = 896
  /\ \/ /\ trace' = Append(trace, By("_areFieldsUnique", r, "throw"))
        /\ Fails(r, "Error")
        /\ UNCHANGED request
     \/ LET isUnique == Total(store.records, request[r].email) = 0
            errors == IF isUnique THEN {} ELSE {"email"}
        IN  /\ request' = [request EXCEPT ![r].errors = errors]
            /\ trace' = Append(trace,
                          By("_areFieldsUnique", r, IF isUnique THEN "unique" ELSE "taken"))
            /\ IF AllUnique(errors) THEN Goes(r, 900)
               ELSE Fails(r, "UnprocessableEntityError")
  /\ UNCHANGED <<store, method, repositionCalls>>

\* 900-908: _checkPermissionsProxy, afterCheckPermissions, schema.makeId.
Between(r, line, stage, kind, next) ==
  /\ pc[r] = line
  /\ \/ trace' = Append(trace, By(stage, r, "ok")) /\ Goes(r, next)
     \/ trace' = Append(trace, By(stage, r, "throw")) /\ Fails(r, kind)
  /\ UNCHANGED <<store, method, request, repositionCalls>>

\* 910: request.data.fullDoc = await self.implementInsert(request, forceId);
\* the persistence layer stores the record or rejects it.
ConcurrentInsert(r) ==
  /\ pc[r] = 910
  /\ \/ /\ store' = [store EXCEPT
                       !.records = Insert(@, Record(r, request[r].email))]
        /\ trace' = Append(trace, By("implementInsert", r, "ok"))
        /\ Goes(r, 912)
     \/ /\ trace' = Append(trace, By("implementInsert", r, "throw"))
        /\ Fails(r, "Error")
        /\ UNCHANGED store
  /\ UNCHANGED <<method, request, repositionCalls>>

\* 912-929: the stages after the insert, then the result.
Conclude(r) ==
  /\ pc[r] = 912
  /\ pc' = [pc EXCEPT ![r] = 0]
  /\ outcome' = [outcome EXCEPT ![r] = Ended("returned", "")]
  /\ UNCHANGED <<store, method, request, trace, repositionCalls>>

ConcurrentNext ==
  \E r \in Requests :
    \/ Arrive(r)
    \/ CheckUnique(r)
    \/ Between(r, 900, "_checkPermissionsProxy", "ForbiddenError", 903)
    \/ Between(r, 903, "afterCheckPermissions", "Error", 908)
    \/ Between(r, 908, "schema.makeId", "Error", 910)
    \/ ConcurrentInsert(r)
    \/ Conclude(r)

SpecConcurrent == ConcurrentInit /\ [][ConcurrentNext]_vars

\* ---- properties of concurrent creates ----

\* Position in the history of the call `stage` that request r made with
\* the given result (0 if it made none).
At(r, stage, result) ==
  IF \E i \in DOMAIN trace : trace[i] = By(stage, r, result)
    THEN CHOOSE i \in DOMAIN trace : trace[i] = By(stage, r, result)
    ELSE 0

\* Both requests carry the same value, both passed the uniqueness check
\* before either insert was issued, and both inserts were accepted.
BothPassedBeforeEitherInserted ==
  /\ request[1].email = request[2].email
  /\ \A r \in Requests :
       /\ At(r, "_areFieldsUnique", "unique") # 0
       /\ At(r, "implementInsert", "ok") # 0
       /\ \A q \in Requests :
            At(r, "_areFieldsUnique", "unique") < At(q, "implementInsert", "ok")

\* C37: the uniqueness check and the insert are not atomic: when both
\* requests carrying one value pass the check before either inserts and
\* the persistence layer rejects neither insert, both records are stored
\* and share the unique value; an insert the layer rejects stores nothing.
C37_CheckThenInsertNotAtomic ==
  /\ BothPassedBeforeEitherInserted =>
       \E a, b \in store.records : a.id # b.id /\ a.email = b.email
  /\ \A r \in Requests :
       At(r, "implementInsert", "throw") # 0 =>
         \A rec \in store.records : rec.id # r

\* C37 witness: the interleaving is reached, both runs returned, and the
\* two records share the value.
C37_Witness ==
  /\ BothPassedBeforeEitherInserted
  /\ \A r \in Requests : outcome[r].state = "returned"
  /\ store.records = {Record(1, "a@x"), Record(2, "a@x")}


\* ---------------------------------------------------------------------
\* Positioning of src/MySqlStoreMixin.js (67-152): implementInsert and
\* implementUpdate, one call at a time, on a table with a positionField
\* and one positionFilter field.  Here
\*   store    holds the rows of the table,
\*   request  the last call: the row it placed, its beforeId, and the
\*            rows as they were before it,
\*   pc       counts the calls.
\* ---------------------------------------------------------------------

\* Number of implementInsert / implementUpdate calls in one run.
MaxPlacements == 3

RowIds == 1 .. MaxPlacements
\* Values of the positionFilter field.
Groups == {"red", "blue"}

\* request.beforeId = request.body[this.beforeIdField]
BeforeIds ==
  {[t |-> "undefined", id |-> 0], [t |-> "null", id |-> 0]}
    \cup {[t |-> "id", id |-> i] : i \in RowIds}

Row(id, group, position) == [id |-> id, group |-> group, position |-> position]

RowOf(rows, id) == CHOOSE row \in rows : row.id = id

\* WHERE ${wherePositionFilter}: the rows of the group of `source`.
InGroup(rows, group) == {row \in rows : row.group = group}

MaxOf(S) == CHOOSE x \in S : \A y \in S : y <= x

\* last(): SELECT max(position) ... WHERE filter, + 1; the maximum of no
\* rows is NULL, and null + 1 is 1.
LastPosition(rows, group) ==
  IF InGroup(rows, group) = {} THEN 1
  ELSE MaxOf({row.position : row \in InGroup(rows, group)}) + 1

\* SELECT id, position FROM table WHERE id = ? AND filter
BeforeIdItem(rows, beforeId, group) ==
  {row \in InGroup(rows, group) : row.id = beforeId.id}

\* UPDATE table SET position = position + 1 WHERE position >= ? AND filter
MakeSpace(rows, from, group) ==
  {IF row.group = group /\ row.position >= from
     THEN [row EXCEPT !.position = @ + 1] ELSE row : row \in rows}

\* What _calculatePosition leaves: the rows after its UPDATE, if any, and
\* request.body[positionField].  hasPosition: request.doc has a position;
\* group: the filter value of request.doc || request.body.
_calculatePosition(rows, beforeId, hasPosition, docPosition, group) ==
  IF beforeId.t = "undefined"
  THEN [rows |-> rows,
        position |-> IF hasPosition THEN docPosition
                     ELSE LastPosition(rows, group)]
  ELSE IF beforeId.t = "null"
  THEN [rows |-> rows, position |-> LastPosition(rows, group)]
  ELSE IF BeforeIdItem(rows, beforeId, group) # {}
  THEN LET item == CHOOSE row \in BeforeIdItem(rows, beforeId, group) : TRUE
       IN  [rows |-> MakeSpace(rows, item.position, group),
            position |-> item.position]
  ELSE [rows |-> rows, position |-> LastPosition(rows, group)]

NoPlacement ==
  [call |-> "", id |-> 0, group |-> "", beforeId |-> [t |-> "undefined", id |-> 0],
   before |-> {}]

PositionInit ==
  /\ store = [rows |-> {}]
  /\ method = ""
  /\ request = NoPlacement
  /\ pc = 0
  /\ trace = << >>
  /\ repositionCalls = << >>
  /\ outcome = [state |-> "none"]

Placed(call, id, group, beforeId) ==
  /\ request' = [call |-> call, id |-> id, group |-> group, beforeId |-> beforeId,
                 before |-> store.rows]
  /\ method' = call
  /\ pc' = pc + 1
  /\ outcome' = [state |-> "returned"]
  /\ UNCHANGED <<trace, repositionCalls>>

\* implementInsert: request.doc is null, so the group is that of the body;
\* INSERT INTO table SET body; the id is the next auto-increment value.
implementInsertPositioned ==
  /\ pc < MaxPlacements
  /\ \E group \in Groups, beforeId \in BeforeIds :
       LET id == Cardinality(store.rows) + 1
           p == _calculatePosition(store.rows, beforeId, FALSE, 0, group)
       IN  /\ store' = [rows |-> p.rows \cup {Row(id, group, p.position)}]
           /\ Placed("implementInsert", id, group, beforeId)

\* implementUpdate of an existing row: request.doc is the row as fetched,
\* so the filter is that of the stored row; UPDATE table SET body WHERE id.
implementUpdatePositioned ==
  /\ pc < MaxPlacements
  /\ \E doc \in store.rows, group \in Groups, beforeId \in BeforeIds :
       LET p == _calculatePosition(store.rows, beforeId, TRUE, doc.position, doc.group)
       IN  /\ store' = [rows |-> {row \in p.rows : row.id # doc.id}
                                   \cup {Row(doc.id, group, p.position)}]
           /\ Placed("implementUpdate", doc.id, group, beforeId)

PositionNext == implementInsertPositioned \/ implementUpdatePositioned

SpecPosition == PositionInit /\ [][PositionNext]_vars

\* ---- properties of positioning ----

\* The row the last call placed, and the rows it shares its group with.
PlacedRow == RowOf(store.rows, request.id)
GroupOfPlaced == InGroup(store.rows, PlacedRow.group) \ {PlacedRow}

\* beforeId names a row (other than the placed one) that was in the
\* group of the placed row.
ValidBeforeId ==
  /\ request.beforeId.t = "id"
  /\ request.beforeId.id # request.id
  /\ \E x \in InGroup(request.before, PlacedRow.group) : x.id = request.beforeId.id

HadPosition == \E row \in request.before : row.id = request.id

PlacedLast == \A row \in GroupOfPlaced : row.position < PlacedRow.position

\* C39: after a call, a row placed before a row X of its group is the
\* immediate predecessor of X and the other rows of the group keep their
\* relative order; with beforeId null or invalid, or undefined on a row
\* that had no position, the row is last in its group; with beforeId
\* undefined on a row that had a position the position is unchanged; and
\* no two rows of one group share a position.
C39_Positioning ==
  /\ request.call # "" =>
       /\ ValidBeforeId =>
            LET x == RowOf(store.rows, request.beforeId.id)
            IN  /\ PlacedRow.position < x.position
                /\ ~\E row \in GroupOfPlaced :
                      /\ PlacedRow.position < row.position
                      /\ row.position < x.position
                /\ \A a, b \in GroupOfPlaced :
                     RowOf(request.before, a.id).position
                         < RowOf(request.before, b.id).position
                       <=> a.position < b.position
       /\ (\/ request.beforeId.t = "null"
           \/ request.beforeId.t = "id" /\ ~ValidBeforeId
                /\ request.beforeId.id # request.id
           \/ request.beforeId.t = "undefined" /\ ~HadPosition) => PlacedLast
       /\ (request.beforeId.t = "undefined" /\ HadPosition) =>
            PlacedRow.position = RowOf(request.before, request.id).position
  /\ \A a, b \in store.rows :
       (a.group = b.group /\ a.position = b.position) => a.id = b.id


\* ---------------------------------------------------------------------
\* Termination of the pipelines of src/jsonreststores.js.  A pipeline is
\* an async function: once the call it awaits has resolved or rejected,
\* the event loop runs its continuation.  Under the assumption that every
\* awaited hook and collaborator call settles, a step that is possible is
\* eventually taken: weak fairness of Next.
\* ---------------------------------------------------------------------

\* Each pipeline reads only the handle flag of its own verb, so the five
\* flags are drawn together here; everything else is as in Init.
LiveInit ==
  /\ \E handles \in BOOLEAN, positioning \in BOOLEAN :
       store = [handlePost |-> handles, handlePut |-> handles,
                handleGet |-> handles, handleGetQuery |-> handles,
                handleDelete |-> handles, positioning |-> positioning]
  /\ method = ""
  /\ request = NoRequest
  /\ pc = 0
  /\ trace = <<>>
  /\ repositionCalls = <<>>
  /\ outcome = NoOutcome

SpecLive == LiveInit /\ [][Next]_vars /\ WF_vars(Next)

\* The most calls one run makes: _makePut on a new record with a
\* placement (lines 411-458): 19 calls.
LongestRun == 19

\* C40: a run that started eventually returns or fails; while it runs it
\* only moves forward through the lines of its pipeline, so no stage is
\* executed twice, and it makes at most LongestRun calls.
C40_Terminates ==
  /\ Running ~> outcome.state # "none"
  /\ [](Len(trace) <= LongestRun)
  /\ [][(pc # 0 /\ pc' # 0) => pc' > pc]_vars

\* C40 witness: a put ran through every stage of its longest path and
\* returned.
C40_Witness ==
  /\ method = "put"
  /\ outcome.state = "returned"
  /\ pc = 0
  /\ Len(trace) = LongestRun

====
